---- MODULE Spec2Model ----
(***************************************************************************)
(* Model of the telemetry aggregation core of mine_armour_dashboard.py:    *)
(* SensorDataManager (the bounded, lock-protected store and the checkpoint *)
(* tracker) and MQTTClient.on_message (the ingestion dispatcher).          *)
(*                                                                         *)
(* Representation of Python values                                         *)
(*   - a JSON / Python scalar is a record [t, n, s]: t is its type tag,    *)
(*     n its number in tenths (26.5 is 265, the sentinel -1 = -1.0 is -10),*)
(*     s its text as a sequence of one-character strings (Python str);     *)
(*   - a datetime returned by datetime.now() is [t |-> "time", n |-> k];   *)
(*   - a dict is a function from keys to values, the empty dict is <<>>;   *)
(*   - a deque(maxlen = max_points) is a sequence, oldest entry first.     *)
(* Object identity: the deques of self.data are created once in __init__   *)
(* and only mutated in place, so a reference to one of them is modelled by *)
(* its path in `data`; the 'latest' dicts are replaced by fresh dict       *)
(* objects and never mutated in place, so a reference to one is modelled   *)
(* by its value at the time the reference was taken.                       *)
(***************************************************************************)
EXTENDS Integers, Sequences, FiniteSets, TLC

(* ------------------------------ bounds -------------------------------- *)

\* capacity of every deque (constructor argument max_points)
max_points == 2

\* number of messages the transport delivers to on_message (handler-level runs)
MaxMsgs == 3

\* number of messages the transport delivers while reader threads run
\* (statement-level runs)
MaxThreadMsgs == 2

(* --------------------------- Python values ---------------------------- *)

None == [t |-> "none", n |-> 0, s |-> <<>>]

\* a JSON number given as integer part i and one decimal digit f
Dec(i, f) == [t |-> "num", n |-> IF i < 0 THEN i * 10 - f ELSE i * 10 + f, s |-> <<>>]

Num(i) == Dec(i, 0)

Str(chars) == [t |-> "str", n |-> 0, s |-> chars]

\* a value of datetime.now(): the k-th reading of the clock
Time(k) == [t |-> "time", n |-> k, s |-> <<>>]

\* a decoded JSON value that is a list (any non-object, non-scalar value)
List == [t |-> "list", n |-> 0, s |-> <<>>]

\* a decoded JSON object: its key/value mapping
Obj(f) == [t |-> "dict", d |-> f]

\* a decoded JSON value that is not an object (list, null, number, string)
NonObj(v) == [t |-> v.t, d |-> <<>>]

\* dict.get(key, default)
Get(d, key, default) == IF key \in DOMAIN d THEN d[key] ELSE default

\* dict[key] = value
Put(d, key, value) == [k \in DOMAIN d \cup {key} |-> IF k = key THEN value ELSE d[k]]

(* ----------------------------- the store ------------------------------ *)

\* deque.append on a deque created without maxlen: nothing is ever evicted
DequeAppendUnbounded(q, x) == Append(q, x)

\* a bounded buffer that refuses new entries once full, keeping the oldest
DequeAppendKeepOldest(q, x) == IF Len(q) >= max_points THEN q ELSE Append(q, x)

\* deque.append on a deque created with maxlen = max_points
DequeAppend(q, x) == IF Len(q) >= max_points THEN Append(Tail(q), x) ELSE Append(q, x)

active_checkpoints ==
    [n \in { <<"1","2","9","8">>, <<"1","7","5","3">>, <<"1","4","5","6">>,
             <<"2","0","0","1">>, <<"2","0","5","5">>, <<"2","0","8","9">>,
             <<"3","0","1","2">>, <<"3","0","6","7">>, <<"3","1","3","4">> } |->
       CASE n = <<"1","2","9","8">> ->
              << <<"E","n","t","r","y"," ","G","a","t","e">>,
                 <<"S","a","f","e","t","y"," ","C","h","e","c","k">>,
                 <<"E","q","u","i","p","m","e","n","t"," ","B","a","y">>,
                 <<"D","e","e","p"," ","S","e","c","t","i","o","n">> >>
         [] n = <<"1","7","5","3">> ->
              << <<"M","a","i","n"," ","T","u","n","n","e","l">>,
                 <<"G","a","s"," ","M","o","n","i","t","o","r">>,
                 <<"E","m","e","r","g","e","n","c","y"," ","E","x","i","t">> >>
         [] n = <<"1","4","5","6">> ->
              << <<"S","h","a","f","t"," ","E","n","t","r","y">>,
                 <<"M","i","n","i","n","g"," ","F","a","c","e">>,
                 <<"V","e","n","t","i","l","a","t","i","o","n"," ","H","u","b">> >>
         [] n = <<"2","0","0","1">> ->
              << <<"N","o","r","t","h"," ","E","n","t","r","y">>,
                 <<"E","q","u","i","p","m","e","n","t"," ","R","o","o","m">>,
                 <<"G","a","s"," ","D","e","t","e","c","t","i","o","n">>,
                 <<"E","x","i","t"," ","P","o","r","t","a","l">> >>
         [] n = <<"2","0","5","5">> ->
              << <<"C","e","n","t","r","a","l"," ","H","u","b">>,
                 <<"S","a","f","e","t","y"," ","S","t","a","t","i","o","n">>,
                 <<"M","i","n","i","n","g"," ","Z","o","n","e">> >>
         [] n = <<"2","0","8","9">> ->
              << <<"S","e","c","o","n","d","a","r","y"," ","T","u","n","n","e","l">>,
                 <<"E","m","e","r","g","e","n","c","y"," ","B","a","y">>,
                 <<"F","i","n","a","l"," ","C","h","e","c","k">> >>
         [] n = <<"3","0","1","2">> ->
              << <<"S","o","u","t","h"," ","G","a","t","e">>,
                 <<"T","o","o","l"," ","C","e","n","t","e","r">>,
                 <<"D","e","e","p"," ","S","h","a","f","t">>,
                 <<"R","e","t","u","r","n"," ","P","a","t","h">> >>
         [] n = <<"3","0","6","7">> ->
              << <<"C","o","n","t","r","o","l"," ","P","o","i","n","t">>,
                 <<"V","e","n","t","i","l","a","t","i","o","n"," ","R","o","o","m">>,
                 <<"S","a","f","e","t","y"," ","E","x","i","t">> >>
         [] OTHER ->
              << <<"A","c","c","e","s","s"," ","T","u","n","n","e","l">>,
                 <<"E","q","u","i","p","m","e","n","t"," ","B","a","y">>,
                 <<"E","m","e","r","g","e","n","c","y"," ","S","t","a","t","i","o","n">> >> ]

\* self.data as built by SensorDataManager.__init__
InitData ==
    [ gas_sensors |->
        [ timestamps |-> <<>>,
          latest |-> [timestamp |-> None] ],
      health_sensors |->
        [ timestamps |-> <<>>, heartRate |-> <<>>, spo2 |-> <<>>,
          GSR |-> <<>>, stress |-> <<>> ],
      environmental_sensors |->
        [ timestamps |-> <<>>, temperature |-> <<>>, humidity |-> <<>> ],
      gps_data |->
        [ timestamps |-> <<>>, lat |-> <<>>, lon |-> <<>>, alt |-> <<>>, sat |-> <<>>,
          latest |-> [lat |-> Num(0), lon |-> Num(0), alt |-> Num(0), sat |-> Num(0)] ],
      rfid_checkpoints |->
        [ timestamps |-> <<>>, uid_scans |-> <<>>,
          latest_tag |-> None, latest_station |-> None,
          checkpoint_progress |-> <<>>,
          active_checkpoints |-> active_checkpoints ] ]

(* --------------------------- add_gas_data ----------------------------- *)

\* the value appended as given, with no sentinel test
UnsentinelKeep(x, sentinel) == x

\* x if x != sentinel else None  (Python == on numbers: -1 == -1.0)
Unsentinel(x, sentinel) == IF x.t = "num" /\ x.n = sentinel.n THEN None ELSE x

\* the payload read with data.get(key), which gives None for a missing key
GasLocalsNoDefault(p) ==
    [key \in {"heartRate", "spo2", "GSR", "stress", "temperature", "humidity",
              "lat", "lon", "alt", "sat"} |-> Get(p.d, key, None)]

\* the local variables add_gas_data reads from the payload with data.get
GasLocals(p) ==
    [ heartRate   |-> Get(p.d, "heartRate", Num(-1)),
      spo2        |-> Get(p.d, "spo2", Num(-1)),
      GSR         |-> Get(p.d, "GSR", Num(0)),
      stress      |-> Get(p.d, "stress", Num(0)),
      temperature |-> Get(p.d, "temperature", Dec(-1, 0)),
      humidity    |-> Get(p.d, "humidity", Dec(-1, 0)),
      lat         |-> Get(p.d, "lat", Dec(0, 0)),
      lon         |-> Get(p.d, "lon", Dec(0, 0)),
      alt         |-> Get(p.d, "alt", Dec(0, 0)),
      sat         |-> Get(p.d, "sat", Num(0)) ]

\* a 'latest' dict built from the translated values that go into the series
GasLatestTranslated(p, ts) ==
    LET v == GasLocals(p) IN
    [ heartRate |-> Unsentinel(v.heartRate, Num(-1)), spo2 |-> Unsentinel(v.spo2, Num(-1)),
      temperature |-> Unsentinel(v.temperature, Dec(-1, 0)),
      humidity |-> Unsentinel(v.humidity, Dec(-1, 0)),
      GSR |-> v.GSR, stress |-> v.stress,
      lat |-> v.lat, lon |-> v.lon, alt |-> v.alt, sat |-> v.sat,
      timestamp |-> ts ]

\* the dict assigned to self.data['gas_sensors']['latest']
GasLatest(p, ts) ==
    LET v == GasLocals(p) IN
    [ heartRate |-> v.heartRate, spo2 |-> v.spo2,
      temperature |-> v.temperature, humidity |-> v.humidity,
      GSR |-> v.GSR, stress |-> v.stress,
      lat |-> v.lat, lon |-> v.lon, alt |-> v.alt, sat |-> v.sat,
      timestamp |-> ts ]

\* the dict assigned to self.data['gps_data']['latest']
GpsLatest(p) ==
    LET v == GasLocals(p) IN
    [ lat |-> v.lat, lon |-> v.lon, alt |-> v.alt, sat |-> v.sat ]

\* whether format(x, '.6f') succeeds: only for numbers (str, None, list raise)
Formats6f(x) == x.t = "num"

\* number of statements of add_gas_data's body that the model steps through
NGasStmts == 18

\* the exception format(x, '.6f') raises for a value that is no number
FormatExc(x) == IF x.t = "str" THEN "ValueError" ELSE "TypeError"

\* the exception statement k of add_gas_data raises on payload p, "" for none:
\* data.get on a value that is no dict (statement 3, line 671), the .6f format
\* of a non-numeric lat / lon in the logging call (statement 18, line 724)
GasExc(k, p) ==
    IF k = 3 /\ p.t # "dict" THEN "AttributeError"
    ELSE IF k = 18 /\ ~Formats6f(GasLocals(p).lat) THEN FormatExc(GasLocals(p).lat)
    ELSE IF k = 18 /\ ~Formats6f(GasLocals(p).lon) THEN FormatExc(GasLocals(p).lon)
    ELSE ""

\* add_gas_data updating the 'latest' dicts in place, key by key, for the keys
\* the payload holds, instead of replacing them
GasApplyMerge(S, d, p, ts) ==
    LET v == GasLocals(p)
        merged(old, new) ==
            [key \in DOMAIN new |->
                IF key \in DOMAIN p.d \/ key \notin DOMAIN old THEN new[key] ELSE old[key]]
    IN
    [d EXCEPT
       !.gas_sensors.timestamps = IF 1 \in S THEN DequeAppend(@, ts) ELSE @,
       !.health_sensors.timestamps = IF 2 \in S THEN DequeAppend(@, ts) ELSE @,
       !.health_sensors.heartRate =
           IF 4 \in S THEN DequeAppend(@, Unsentinel(v.heartRate, Num(-1))) ELSE @,
       !.health_sensors.spo2 =
           IF 5 \in S THEN DequeAppend(@, Unsentinel(v.spo2, Num(-1))) ELSE @,
       !.health_sensors.GSR = IF 6 \in S THEN DequeAppend(@, v.GSR) ELSE @,
       !.health_sensors.stress = IF 7 \in S THEN DequeAppend(@, v.stress) ELSE @,
       !.environmental_sensors.timestamps = IF 8 \in S THEN DequeAppend(@, ts) ELSE @,
       !.environmental_sensors.temperature =
           IF 9 \in S THEN DequeAppend(@, Unsentinel(v.temperature, Dec(-1, 0))) ELSE @,
       !.environmental_sensors.humidity =
           IF 10 \in S THEN DequeAppend(@, Unsentinel(v.humidity, Dec(-1, 0))) ELSE @,
       !.gps_data.timestamps = IF 11 \in S THEN DequeAppend(@, ts) ELSE @,
       !.gps_data.lat = IF 12 \in S THEN DequeAppend(@, v.lat) ELSE @,
       !.gps_data.lon = IF 13 \in S THEN DequeAppend(@, v.lon) ELSE @,
       !.gps_data.alt = IF 14 \in S THEN DequeAppend(@, v.alt) ELSE @,
       !.gps_data.sat = IF 15 \in S THEN DequeAppend(@, v.sat) ELSE @,
       !.gas_sensors.latest = IF 16 \in S THEN merged(@, GasLatest(p, ts)) ELSE @,
       !.gps_data.latest = IF 17 \in S THEN merged(@, GpsLatest(p)) ELSE @]

\* the effect on self.data of the statements of add_gas_data whose numbers are
\* in S, run in order (each statement writes an entry of its own):
\*    1 line 667    2 line 670    3 lines 671-674 (data.get, no write)
\*    4-7 lines 676-679    8 line 682    9-10 lines 686-687    11 line 690
\*    12-15 lines 696-699    16 line 702    17 line 717    18 line 724 (log)
GasApply(S, d, p, ts) ==
    LET v == GasLocals(p) IN
    [d EXCEPT
       !.gas_sensors.timestamps = IF 1 \in S THEN DequeAppend(@, ts) ELSE @,
       !.health_sensors.timestamps = IF 2 \in S THEN DequeAppend(@, ts) ELSE @,
       !.health_sensors.heartRate =
           IF 4 \in S THEN DequeAppend(@, Unsentinel(v.heartRate, Num(-1))) ELSE @,
       !.health_sensors.spo2 =
           IF 5 \in S THEN DequeAppend(@, Unsentinel(v.spo2, Num(-1))) ELSE @,
       !.health_sensors.GSR = IF 6 \in S THEN DequeAppend(@, v.GSR) ELSE @,
       !.health_sensors.stress = IF 7 \in S THEN DequeAppend(@, v.stress) ELSE @,
       !.environmental_sensors.timestamps = IF 8 \in S THEN DequeAppend(@, ts) ELSE @,
       !.environmental_sensors.temperature =
           IF 9 \in S THEN DequeAppend(@, Unsentinel(v.temperature, Dec(-1, 0))) ELSE @,
       !.environmental_sensors.humidity =
           IF 10 \in S THEN DequeAppend(@, Unsentinel(v.humidity, Dec(-1, 0))) ELSE @,
       !.gps_data.timestamps = IF 11 \in S THEN DequeAppend(@, ts) ELSE @,
       !.gps_data.lat = IF 12 \in S THEN DequeAppend(@, v.lat) ELSE @,
       !.gps_data.lon = IF 13 \in S THEN DequeAppend(@, v.lon) ELSE @,
       !.gps_data.alt = IF 14 \in S THEN DequeAppend(@, v.alt) ELSE @,
       !.gps_data.sat = IF 15 \in S THEN DequeAppend(@, v.sat) ELSE @,
       !.gas_sensors.latest = IF 16 \in S THEN GasLatest(p, ts) ELSE @,
       !.gps_data.latest = IF 17 \in S THEN GpsLatest(p) ELSE @]

\* the effect of statement k of add_gas_data on self.data (when it does not raise)
GasStmt(k, d, p, ts) == GasApply({k}, d, p, ts)

\* the first statement of add_gas_data that raises on payload p,
\* NGasStmts + 1 when none does
GasStop(p) ==
    IF \E k \in 1..NGasStmts : GasExc(k, p) # ""
    THEN CHOOSE k \in 1..NGasStmts :
            GasExc(k, p) # "" /\ \A j \in 1..(k - 1) : GasExc(j, p) = ""
    ELSE NGasStmts + 1

\* SensorDataManager.add_gas_data(data) called with the clock reading ts: the
\* statements run up to the end or to the one that raises
add_gas_data(d, p, ts) ==
    [ data |-> GasApply(1..(GasStop(p) - 1), d, p, ts),
      exc  |-> IF GasStop(p) <= NGasStmts THEN GasExc(GasStop(p), p) ELSE "" ]

(* --------------------------- add_rfid_data ---------------------------- *)

\* the zone table with each zone's nodes listed deepest first
zone_nodes_reversed ==
    [z \in {"A", "B", "C"} |->
       CASE z = "A" -> << <<"1","4","5","6">>, <<"1","7","5","3">>, <<"1","2","9","8">> >>
         [] z = "B" -> << <<"2","0","8","9">>, <<"2","0","5","5">>, <<"2","0","0","1">> >>
         [] OTHER   -> << <<"3","1","3","4">>, <<"3","0","6","7">>, <<"3","0","1","2">> >> ]

zone_nodes ==
    [z \in {"A", "B", "C"} |->
       CASE z = "A" -> << <<"1","2","9","8">>, <<"1","7","5","3">>, <<"1","4","5","6">> >>
         [] z = "B" -> << <<"2","0","0","1">>, <<"2","0","5","5">>, <<"2","0","8","9">> >>
         [] OTHER   -> << <<"3","0","1","2">>, <<"3","0","6","7">>, <<"3","1","3","4">> >> ]

checkpoint_mapping ==
    [st \in { <<z, i>> : z \in {"A", "B", "C"}, i \in {"1", "2", "3", "4"} } |->
       CASE st = <<"A","1">> -> <<"E","n","t","r","y"," ","G","a","t","e">>
         [] st = <<"A","2">> -> <<"S","a","f","e","t","y"," ","C","h","e","c","k">>
         [] st = <<"A","3">> -> <<"E","q","u","i","p","m","e","n","t"," ","B","a","y">>
         [] st = <<"A","4">> -> <<"D","e","e","p"," ","S","e","c","t","i","o","n">>
         [] st = <<"B","1">> -> <<"N","o","r","t","h"," ","E","n","t","r","y">>
         [] st = <<"B","2">> -> <<"E","q","u","i","p","m","e","n","t"," ","R","o","o","m">>
         [] st = <<"B","3">> -> <<"G","a","s"," ","D","e","t","e","c","t","i","o","n">>
         [] st = <<"B","4">> -> <<"E","x","i","t"," ","P","o","r","t","a","l">>
         [] st = <<"C","1">> -> <<"S","o","u","t","h"," ","G","a","t","e">>
         [] st = <<"C","2">> -> <<"T","o","o","l"," ","C","e","n","t","e","r">>
         [] st = <<"C","3">> -> <<"D","e","e","p"," ","S","h","a","f","t">>
         [] OTHER            -> <<"R","e","t","u","r","n"," ","P","a","t","h">> ]

\* the value of a decimal digit character, -1 for any other character
DigitVal(c) ==
    CASE c = "0" -> 0 [] c = "1" -> 1 [] c = "2" -> 2 [] c = "3" -> 3 [] c = "4" -> 4
      [] c = "5" -> 5 [] c = "6" -> 6 [] c = "7" -> 7 [] c = "8" -> 8 [] c = "9" -> 9
      [] OTHER -> -1

\* the number written by a sequence of decimal digits
RECURSIVE DigitsVal(_)
DigitsVal(chars) ==
    IF chars = <<>> THEN 0
    ELSE DigitsVal(SubSeq(chars, 1, Len(chars) - 1)) * 10 + DigitVal(chars[Len(chars)])

\* whether int(chars) succeeds: an optional sign and at least one digit
\* (surrounding whitespace and underscores, which int() also accepts, are not
\* among the characters of the model's station ids)
IntParses(chars) ==
    LET body == IF chars # <<>> /\ chars[1] \in {"-", "+"} THEN Tail(chars) ELSE chars
    IN  body # <<>> /\ \A i \in 1..Len(body) : DigitVal(body[i]) >= 0

\* int(chars) for a string that parses
IntOf(chars) ==
    IF chars[1] = "-" THEN 0 - DigitsVal(Tail(chars))
    ELSE IF chars[1] = "+" THEN DigitsVal(Tail(chars))
    ELSE DigitsVal(chars)

\* the locals of add_rfid_data with the station number taken as a 0-based index
RfidLocalsZeroBased(p) ==
    IF p.t # "dict" THEN [exc |-> "AttributeError"]
    ELSE
    LET station_id == Get(p.d, "station_id", Str(<<>>))
        tag_id == Get(p.d, "tag_id", Str(<<>>))
    IN  IF station_id.t # "str" THEN [exc |-> "TypeError"]
        ELSE
        LET sid == station_id.s
            zone == IF sid # <<>> THEN sid[1] ELSE ""
            station_num == IF Len(sid) > 1 THEN Tail(sid) ELSE <<"1">>
            checkpoint_id ==
                IF sid \in DOMAIN checkpoint_mapping THEN checkpoint_mapping[sid]
                ELSE <<"S","t","a","t","i","o","n"," ">> \o sid
        IN  IF zone \in DOMAIN zone_nodes
            THEN IF ~IntParses(station_num) THEN [exc |-> "ValueError"]
                 ELSE LET nodes == zone_nodes[zone]
                          node_idx == IntOf(station_num) % Len(nodes)
                      IN  [exc |-> "", station_id |-> station_id, tag_id |-> tag_id,
                           node_id |-> nodes[node_idx + 1], checkpoint_id |-> checkpoint_id]
            ELSE [exc |-> "", station_id |-> station_id, tag_id |-> tag_id,
                  node_id |-> sid, checkpoint_id |-> checkpoint_id]

\* the locals of add_rfid_data with the station number always taken from the
\* characters after the zone letter, none for a one-letter station id
RfidLocalsNoDefault(p) ==
    IF p.t # "dict" THEN [exc |-> "AttributeError"]
    ELSE
    LET station_id == Get(p.d, "station_id", Str(<<>>))
        tag_id == Get(p.d, "tag_id", Str(<<>>))
    IN  IF station_id.t # "str" THEN [exc |-> "TypeError"]
        ELSE
        LET sid == station_id.s
            zone == IF sid # <<>> THEN sid[1] ELSE ""
            station_num == IF sid # <<>> THEN Tail(sid) ELSE <<>>
            checkpoint_id ==
                IF sid \in DOMAIN checkpoint_mapping THEN checkpoint_mapping[sid]
                ELSE <<"S","t","a","t","i","o","n"," ">> \o sid
        IN  IF zone \in DOMAIN zone_nodes
            THEN IF ~IntParses(station_num) THEN [exc |-> "ValueError"]
                 ELSE LET nodes == zone_nodes[zone]
                          node_idx == (IntOf(station_num) - 1) % Len(nodes)
                      IN  [exc |-> "", station_id |-> station_id, tag_id |-> tag_id,
                           node_id |-> nodes[node_idx + 1], checkpoint_id |-> checkpoint_id]
            ELSE [exc |-> "", station_id |-> station_id, tag_id |-> tag_id,
                  node_id |-> sid, checkpoint_id |-> checkpoint_id]

\* the locals of add_rfid_data with nodes[int(station_num) - 1], the index not
\* reduced modulo len(nodes): a list index outside -3..2 raises IndexError
RfidLocalsNoModulo(p) ==
    IF p.t # "dict" THEN [exc |-> "AttributeError"]
    ELSE
    LET station_id == Get(p.d, "station_id", Str(<<>>))
        tag_id == Get(p.d, "tag_id", Str(<<>>))
    IN  IF station_id.t # "str" THEN [exc |-> "TypeError"]
        ELSE
        LET sid == station_id.s
            zone == IF sid # <<>> THEN sid[1] ELSE ""
            station_num == IF Len(sid) > 1 THEN Tail(sid) ELSE <<"1">>
            checkpoint_id ==
                IF sid \in DOMAIN checkpoint_mapping THEN checkpoint_mapping[sid]
                ELSE <<"S","t","a","t","i","o","n"," ">> \o sid
        IN  IF zone \in DOMAIN zone_nodes
            THEN IF ~IntParses(station_num) THEN [exc |-> "ValueError"]
                 ELSE LET nodes == zone_nodes[zone]
                          node_idx == IntOf(station_num) - 1
                      IN  IF node_idx \in (0 - Len(nodes))..(Len(nodes) - 1)
                          THEN [exc |-> "", station_id |-> station_id, tag_id |-> tag_id,
                                node_id |-> nodes[(node_idx % Len(nodes)) + 1],
                                checkpoint_id |-> checkpoint_id]
                          ELSE [exc |-> "IndexError"]
            ELSE [exc |-> "", station_id |-> station_id, tag_id |-> tag_id,
                  node_id |-> sid, checkpoint_id |-> checkpoint_id]

\* lines 752-790 of add_rfid_data: the local variables computed from the
\* payload before anything is stored, or the fact that one of them raises
\*   - rfid_data.get on a value that is no dict (AttributeError),
\*   - station_id[0] / len(station_id) on a value that is no str (TypeError),
\*   - int(station_num) on a non-numeric remainder (ValueError)
\* (statement 1 of the body)
RfidLocals(p) ==
    IF p.t # "dict" THEN [exc |-> "AttributeError"]
    ELSE
    LET station_id == Get(p.d, "station_id", Str(<<>>))
        tag_id == Get(p.d, "tag_id", Str(<<>>))
    IN  IF station_id.t # "str" THEN [exc |-> "TypeError"]
        ELSE
        LET sid == station_id.s
            zone == IF sid # <<>> THEN sid[1] ELSE ""
            station_num == IF Len(sid) > 1 THEN Tail(sid) ELSE <<"1">>
            checkpoint_id ==
                IF sid \in DOMAIN checkpoint_mapping THEN checkpoint_mapping[sid]
                ELSE <<"S","t","a","t","i","o","n"," ">> \o sid
        IN  IF zone \in DOMAIN zone_nodes
            THEN IF ~IntParses(station_num) THEN [exc |-> "ValueError"]
                 ELSE LET nodes == zone_nodes[zone]
                          node_idx == (IntOf(station_num) - 1) % Len(nodes)
                      IN  [exc |-> "", station_id |-> station_id, tag_id |-> tag_id,
                           node_id |-> nodes[node_idx + 1], checkpoint_id |-> checkpoint_id]
            ELSE [exc |-> "", station_id |-> station_id, tag_id |-> tag_id,
                  node_id |-> sid, checkpoint_id |-> checkpoint_id]

\* number of statements of add_rfid_data's body that the model steps through
NRfidStmts == 7

\* the exception statement k of add_rfid_data raises on payload p, "" for none
RfidExc(k, p) == IF k = 1 THEN RfidLocals(p).exc ELSE ""

\* progress recorded only for the nodes that have configured checkpoints
ProgressGuardKnownNode(v) ==
    v.node_id \in DOMAIN active_checkpoints /\ v.checkpoint_id # <<>>

\* progress recorded whenever there is a checkpoint name, the node not tested
ProgressGuardCheckpointOnly(v) == v.checkpoint_id # <<>>

\* `if node_id and checkpoint_id`: both strings are non-empty
ProgressGuard(v) == v.node_id # <<>> /\ v.checkpoint_id # <<>>

\* self.data[...]['checkpoint_progress'][node_id] = {checkpoint_id: timestamp}:
\* the node's entry replaced by a dict holding the new checkpoint alone
SetProgressFresh(progress, node_id, checkpoint_id, ts) ==
    Put(progress, node_id, Put(<<>>, checkpoint_id, ts))

\* self.data[...]['checkpoint_progress'] = {node_id: {..., checkpoint_id:
\* timestamp}}: the progress of every other node dropped
SetProgressSingleNode(progress, node_id, checkpoint_id, ts) ==
    Put(<<>>, node_id, Put(progress[node_id], checkpoint_id, ts))

\* self.data[...]['checkpoint_progress'][node_id][checkpoint_id] = timestamp
SetProgress(progress, node_id, checkpoint_id, ts) ==
    Put(progress, node_id, Put(progress[node_id], checkpoint_id, ts))

\* the effect on self.data of the statements of add_rfid_data whose numbers
\* are in S, run in order:
\*    1 lines 752-790 (locals, no write)    2 line 793    3 lines 794-800
\*    4 line 802    5 line 803    6 lines 807-808    7 line 810
RfidApply(S, d, p, ts) ==
    LET v == RfidLocals(p)
        created(progress) ==
            IF 6 \in S /\ ProgressGuard(v) /\ v.node_id \notin DOMAIN progress
            THEN Put(progress, v.node_id, <<>>)
            ELSE progress
    IN
    [d EXCEPT
       !.rfid_checkpoints.timestamps = IF 2 \in S THEN DequeAppend(@, ts) ELSE @,
       !.rfid_checkpoints.uid_scans =
           IF 3 \in S
           THEN DequeAppend(@, [tag_id |-> v.tag_id, station_id |-> v.station_id,
                                node_id |-> v.node_id, checkpoint |-> v.checkpoint_id,
                                timestamp |-> ts])
           ELSE @,
       !.rfid_checkpoints.latest_tag = IF 4 \in S THEN v.tag_id ELSE @,
       !.rfid_checkpoints.latest_station = IF 5 \in S THEN v.station_id ELSE @,
       !.rfid_checkpoints.checkpoint_progress =
           IF 7 \in S /\ ProgressGuard(v)
           THEN SetProgress(created(@), v.node_id, v.checkpoint_id, ts)
           ELSE created(@)]

\* add_rfid_data registering a node it has no checkpoint list for: statement 6
\* also gives the node an empty list in active_checkpoints
RfidStmtRegister(k, d, p, ts) ==
    LET v == RfidLocals(p)
        d2 == RfidApply({k}, d, p, ts)
    IN  IF k = 6 /\ ProgressGuard(v) /\ v.node_id \notin DOMAIN d.rfid_checkpoints.active_checkpoints
        THEN [d2 EXCEPT !.rfid_checkpoints.active_checkpoints = Put(@, v.node_id, <<>>)]
        ELSE d2

\* the effect of statement k of add_rfid_data on self.data (when it does not raise)
RfidStmt(k, d, p, ts) == RfidApply({k}, d, p, ts)

\* add_rfid_data also stamping the combined-sensor timestamps deque
add_rfid_data_stamp_gas(d, p, ts) ==
    IF RfidExc(1, p) # "" THEN [data |-> d, exc |-> RfidExc(1, p)]
    ELSE [data |-> GasStmt(1, RfidApply(1..NRfidStmts, d, p, ts), p, ts), exc |-> ""]

\* SensorDataManager.add_rfid_data(rfid_data) called with the clock reading ts:
\* only the locals can raise, before anything is stored
add_rfid_data(d, p, ts) ==
    IF RfidExc(1, p) # "" THEN [data |-> d, exc |-> RfidExc(1, p)]
    ELSE [data |-> RfidApply(1..NRfidStmts, d, p, ts), exc |-> ""]

(* ------------------------------ getters ------------------------------- *)

\* a status list holding only the checkpoints found in checkpoint_progress
get_checkpoint_status_passed(d, node_id) ==
    LET checkpoints == Get(d.rfid_checkpoints.active_checkpoints, node_id, <<>>)
        progress == Get(d.rfid_checkpoints.checkpoint_progress, node_id, <<>>)
        passed == SelectSeq(checkpoints, LAMBDA c : c \in DOMAIN progress)
    IN  [i \in 1..Len(passed) |-> <<passed[i], TRUE, progress[passed[i]]>>]

\* the list built by get_checkpoint_status(node_id) from self.data
get_checkpoint_status(d, node_id) ==
    LET checkpoints == Get(d.rfid_checkpoints.active_checkpoints, node_id, <<>>)
        progress == Get(d.rfid_checkpoints.checkpoint_progress, node_id, <<>>)
    IN  [i \in 1..Len(checkpoints) |->
           LET checkpoint == checkpoints[i]
               is_passed == checkpoint \in DOMAIN progress
           IN  <<checkpoint, is_passed, IF is_passed THEN progress[checkpoint] ELSE None>>]

(* ------------------------------ messages ------------------------------ *)

gas_topic == <<"L","O","K","I","_","2","0","0","4">>

rfid_topic == <<"r","f","i","d">>

\* a message on a topic the client did not subscribe to
other_topic == <<"o","t","h","e","r">>

\* a message as the transport hands it to on_message: its topic and its raw
\* payload, described by whether the bytes are valid UTF-8, whether the text is
\* valid JSON, and the value json.loads returns for it
Msg(topic, value) == [topic |-> topic, utf8 |-> TRUE, json |-> TRUE, value |-> value]

BadUtf8(topic) == [topic |-> topic, utf8 |-> FALSE, json |-> FALSE, value |-> NonObj(None)]

BadJson(topic) == [topic |-> topic, utf8 |-> TRUE, json |-> FALSE, value |-> NonObj(None)]

\* combined-sensor payloads the transport delivers
GasPayloads ==
    << Obj(<<>>),
       Obj([heartRate |-> Num(88), temperature |-> Dec(26, 5)]),
       Obj([heartRate |-> Num(72), spo2 |-> Num(98), GSR |-> Num(5), stress |-> Num(1),
            temperature |-> Dec(30, 0), humidity |-> Dec(40, 5),
            lat |-> Dec(12, 5), lon |-> Dec(77, 5), alt |-> Dec(900, 0), sat |-> Num(7)]),
       Obj([heartRate |-> Num(-1), spo2 |-> Num(-1),
            temperature |-> Dec(-1, 0), humidity |-> Dec(-1, 0), GSR |-> Num(3)]),
       Obj([heartRate |-> Num(60), lat |-> Str(<<"x">>)]),
       NonObj(List),
       NonObj(None) >>

\* checkpoint-scan payloads the transport delivers
RfidPayloads ==
    << Obj([station_id |-> Str(<<"A","1">>), tag_id |-> Str(<<"T","1">>)]),
       Obj([station_id |-> Str(<<"A","4">>), tag_id |-> Str(<<"T","2">>)]),
       Obj([station_id |-> Str(<<"A","5">>), tag_id |-> Str(<<"T","1">>)]),
       Obj([station_id |-> Str(<<"Z","9">>), tag_id |-> Str(<<"T","2">>)]),
       Obj([station_id |-> Str(<<"A","x">>), tag_id |-> Str(<<"T","1">>)]),
       Obj([station_id |-> Num(5), tag_id |-> Str(<<"T","1">>)]),
       Obj([tag_id |-> Str(<<"T","1">>)]),
       NonObj(List) >>

\* the payloads delivered while reader threads run
ThreadGasPayloads ==
    << Obj([heartRate |-> Num(88), temperature |-> Dec(26, 5)]),
       Obj([spo2 |-> Num(98), lat |-> Dec(12, 5)]),
       NonObj(List) >>

ThreadRfidPayloads ==
    << Obj([station_id |-> Str(<<"A","1">>), tag_id |-> Str(<<"T","1">>)]),
       Obj([station_id |-> Str(<<"Z","9">>), tag_id |-> Str(<<"T","2">>)]) >>

(* ---------------------- the standalone gas server --------------------- *)

\* server.py's module-level dict gas_data as the module body leaves it
gas_data ==
    [LPG |-> None, CH4 |-> None, Propane |-> None, Butane |-> None, H2 |-> None,
     timestamp |-> None]

\* the loop thread outside on_message
LoopIdle == [pc |-> "idle", k |-> 0, d |-> <<>>, ts |-> None]

\* the summary thread inside time.sleep(30)
SummaryAsleep == [pc |-> "sleep", k |-> 0, seen |-> <<>>]

\* the server when run() has started the summary thread and entered
\* client.loop_forever(): no message received yet
ServerInit ==
    [gas_data |-> gas_data, loop |-> LoopIdle, summary |-> SummaryAsleep,
     received |-> <<>>, now |-> 0]

(* ------------------------------- state -------------------------------- *)

VARIABLES
    data,     \* SensorDataManager.data
    lock,     \* SensorDataManager.lock: "free" or the thread holding it
    clock,    \* the number of datetime.now() readings taken so far
    log,      \* the records on_message has written with logging.info / .error
    sent,     \* the messages the transport has handed to on_message so far
    mqtt,     \* the transport's loop thread: its position in on_message
    rd,       \* the reader threads (dashboard callbacks): their positions
    connected, \* MQTTClient.connected
    session,  \* the connect / disconnect callbacks the transport has made so far
    server    \* the standalone gas server (server.py): its dict and its two threads

vars == <<data, lock, clock, log, sent, mqtt, rd, connected, session, server>>

\* two dashboard callbacks running at once: a chart callback and the
\* checkpoint-page callback
Readers == {"chart", "checkpoints"}

\* the loop thread between two messages
MqttIdle == [pc |-> "idle", topic |-> <<>>, p |-> NonObj(None), ts |-> None, k |-> 0]

\* what a getter returns by value; the deques and the checkpoint_progress dict
\* of the returned dict are the store's own objects and are read through `data`
NoReturn == [latest |-> <<>>, latest_tag |-> None, latest_station |-> None, status |-> <<>>]

\* a reader thread between two callbacks
ReaderIdle ==
    [pc |-> "idle", getter |-> "", metric |-> "", node |-> <<>>, ret |-> NoReturn, seen |-> <<>>]

Init ==
    /\ data = InitData
    /\ lock = "free"
    /\ clock = 0
    /\ log = <<>>
    /\ sent = <<>>
    /\ mqtt = MqttIdle
    /\ rd = [r \in Readers |-> ReaderIdle]
    /\ connected = FALSE
    /\ session = <<>>
    /\ server = ServerInit

(* ---------------------------- on_message ------------------------------ *)

\* payload.decode('utf-8') and json.loads(payload): the exception raised, "" for none
DecodeExc(m) ==
    IF ~m.utf8 THEN "UnicodeDecodeError"
    ELSE IF m.topic \in {gas_topic, rfid_topic} /\ ~m.json THEN "JSONDecodeError"
    ELSE ""

ErrorRecord(exc) == [level |-> "error", text |-> exc]

\* `except ValueError`: the decode errors (UnicodeDecodeError and JSONDecodeError
\* are subclasses of ValueError) and no other exception
CaughtValueError(exc) == exc \in {"ValueError", "UnicodeDecodeError", "JSONDecodeError"}

\* `except Exception`: every exception but those deriving from BaseException alone
Caught(exc) == exc \notin {"KeyboardInterrupt", "SystemExit", "GeneratorExit"}

\* on_message left by exception exc, raised with the store at d and the clock
\* at clk: the except clause logs it, or it propagates to the transport's loop
Except(d, clk, exc) ==
    [data |-> d, clock |-> clk,
     logged |-> IF Caught(exc) THEN <<ErrorRecord(exc)>> ELSE <<>>,
     raised |-> IF Caught(exc) THEN "" ELSE exc]

InfoRecord(what) == [level |-> "info", text |-> what]

\* on_message recording the arrival time of a combined-sensor message before
\* it decodes the payload
on_message_stamp_first(d, clk, m) ==
    LET stamped == IF m.topic = gas_topic THEN GasStmt(1, d, m.value, Time(clk)) ELSE d
        clk1 == IF m.topic = gas_topic THEN clk + 1 ELSE clk
    IN
    IF DecodeExc(m) # ""
    THEN [data |-> stamped, clock |-> clk1, logged |-> <<ErrorRecord(DecodeExc(m))>>,
          raised |-> ""]
    ELSE IF m.topic = gas_topic
    THEN LET r == add_gas_data(d, m.value, Time(clk))
         IN  [data |-> r.data, clock |-> clk1,
              logged |-> IF r.exc # "" THEN <<ErrorRecord(r.exc)>>
                         ELSE <<InfoRecord("Received gas data")>>,
              raised |-> ""]
    ELSE IF m.topic = rfid_topic
    THEN LET r == add_rfid_data(d, m.value, Time(clk))
         IN  [data |-> r.data, clock |-> clk + 1,
              logged |-> IF r.exc # "" THEN <<ErrorRecord(r.exc)>>
                         ELSE <<InfoRecord("Received RFID data")>>,
              raised |-> ""]
    ELSE [data |-> d, clock |-> clk, logged |-> <<>>, raised |-> ""]

\* on_message with a bare `else:` for the checkpoint branch: every topic other
\* than the combined-sensor topic is handled as a scan
on_message_route_rest(d, clk, m) ==
    IF DecodeExc(m) # "" THEN Except(d, clk, DecodeExc(m))
    ELSE IF m.topic = gas_topic
    THEN LET r == add_gas_data(d, m.value, Time(clk))
         IN  IF r.exc # "" THEN Except(r.data, clk + 1, r.exc)
             ELSE [data |-> r.data, clock |-> clk + 1,
                   logged |-> <<InfoRecord("Received gas data")>>, raised |-> ""]
    ELSE LET r == add_rfid_data(d, m.value, Time(clk))
         IN  IF r.exc # "" THEN Except(r.data, clk + 1, r.exc)
             ELSE [data |-> r.data, clock |-> clk + 1,
                   logged |-> <<InfoRecord("Received RFID data")>>, raised |-> ""]

\* MQTTClient.on_message(message) run as a whole on store d, with the clock at
\* clk: the store, the clock and the log records it leaves behind
on_message(d, clk, m) ==
    IF DecodeExc(m) # "" THEN Except(d, clk, DecodeExc(m))
    ELSE IF m.topic = gas_topic
    THEN LET r == add_gas_data(d, m.value, Time(clk))
         IN  IF r.exc # "" THEN Except(r.data, clk + 1, r.exc)
             ELSE [data |-> r.data, clock |-> clk + 1,
                   logged |-> <<InfoRecord("Received gas data")>>, raised |-> ""]
    ELSE IF m.topic = rfid_topic
    THEN LET r == add_rfid_data(d, m.value, Time(clk))
         IN  IF r.exc # "" THEN Except(r.data, clk + 1, r.exc)
             ELSE [data |-> r.data, clock |-> clk + 1,
                   logged |-> <<InfoRecord("Received RFID data")>>, raised |-> ""]
    ELSE [data |-> d, clock |-> clk, logged |-> <<>>, raised |-> ""]

\* the transport delivers message m and on_message handles it to its end; an
\* exception it lets through ends the transport's loop thread
OnMessage(m) ==
    /\ mqtt.pc = "idle"
    /\ lock = "free"
    /\ Len(sent) < MaxMsgs
    /\ sent' = Append(sent, m)
    /\ LET r == on_message(data, clock, m)
       IN  /\ data' = r.data
           /\ clock' = r.clock
           /\ log' = log \o r.logged
           /\ mqtt' = IF r.raised = "" THEN mqtt ELSE [mqtt EXCEPT !.pc = "crashed"]
    /\ UNCHANGED <<lock, rd, connected, session, server>>

DeliverGas == \E i \in 1..Len(GasPayloads) : OnMessage(Msg(gas_topic, GasPayloads[i]))

DeliverRfid == \E i \in 1..Len(RfidPayloads) : OnMessage(Msg(rfid_topic, RfidPayloads[i]))

DeliverOther == OnMessage(Msg(other_topic, Obj(<<>>)))

\* payload.decode runs for every topic, json.loads for the subscribed ones
DeliverMalformed ==
    \/ \E t \in {gas_topic, rfid_topic, other_topic} : OnMessage(BadUtf8(t))
    \/ \E t \in {gas_topic, rfid_topic} : OnMessage(BadJson(t))

Next == DeliverGas \/ DeliverRfid \/ DeliverOther \/ DeliverMalformed

\* the dispatcher and the store, one handler at a time
Spec == Init /\ [][Next]_vars

(* ------------------------ threads and the lock ------------------------ *)

\* threading.Lock.acquire, as `with self.lock` calls it: blocks until the lock is free
LockFree(l) == l = "free"

\* the number of statements of the store operation the loop thread is in
NStmts(topic) == IF topic = gas_topic THEN NGasStmts ELSE NRfidStmts

StmtExc(topic, k, p) == IF topic = gas_topic THEN GasExc(k, p) ELSE RfidExc(k, p)

Stmt(topic, k, d, p, ts) ==
    IF topic = gas_topic THEN GasStmt(k, d, p, ts) ELSE RfidStmt(k, d, p, ts)

\* on_message, lines 866-872 / 878: the message is decoded; a decode error is
\* logged, a message of a subscribed topic goes on to the store operation
MqttDeliver(m) ==
    /\ mqtt.pc = "idle"
    /\ Len(sent) < MaxThreadMsgs
    /\ sent' = Append(sent, m)
    /\ IF DecodeExc(m) # ""
       THEN /\ log' = log \o Except(data, clock, DecodeExc(m)).logged
            /\ mqtt' = IF Caught(DecodeExc(m)) THEN mqtt ELSE [mqtt EXCEPT !.pc = "crashed"]
       ELSE IF m.topic \in {gas_topic, rfid_topic}
       THEN /\ log' = log
            /\ mqtt' = [pc |-> "acquire", topic |-> m.topic, p |-> m.value,
                        ts |-> None, k |-> 0]
       ELSE /\ log' = log
            /\ mqtt' = mqtt
    /\ UNCHANGED <<data, lock, clock, rd, connected, session, server>>

\* `with self.lock:` and `timestamp = datetime.now()` of add_gas_data / add_rfid_data
MqttAcquire ==
    /\ mqtt.pc = "acquire"
    /\ LockFree(lock)
    /\ lock' = "mqtt"
    /\ mqtt' = [mqtt EXCEPT !.pc = "body", !.ts = Time(clock), !.k = 1]
    /\ clock' = clock + 1
    /\ UNCHANGED <<data, log, sent, rd, connected, session, server>>

\* one statement of the store operation, under the lock
MqttStmt ==
    /\ mqtt.pc = "body"
    /\ mqtt.k <= NStmts(mqtt.topic)
    /\ StmtExc(mqtt.topic, mqtt.k, mqtt.p) = ""
    /\ data' = Stmt(mqtt.topic, mqtt.k, data, mqtt.p, mqtt.ts)
    /\ mqtt' = [mqtt EXCEPT !.k = @ + 1]
    /\ UNCHANGED <<lock, clock, log, sent, rd, connected, session, server>>

\* a store operation written with lock.acquire() / lock.release() around its
\* body instead of `with self.lock:`: an exception skips the release
MqttRaiseHolding ==
    /\ mqtt.pc = "body"
    /\ mqtt.k <= NStmts(mqtt.topic)
    /\ StmtExc(mqtt.topic, mqtt.k, mqtt.p) # ""
    /\ log' = log \o Except(data, clock, StmtExc(mqtt.topic, mqtt.k, mqtt.p)).logged
    /\ mqtt' = MqttIdle
    /\ UNCHANGED <<data, lock, clock, sent, rd, connected, session, server>>

\* a statement raises: the with block releases the lock and on_message's
\* except clause logs the error, or lets it through to the transport's loop
MqttRaise ==
    /\ mqtt.pc = "body"
    /\ mqtt.k <= NStmts(mqtt.topic)
    /\ StmtExc(mqtt.topic, mqtt.k, mqtt.p) # ""
    /\ lock' = "free"
    /\ log' = log \o Except(data, clock, StmtExc(mqtt.topic, mqtt.k, mqtt.p)).logged
    /\ mqtt' = IF Caught(StmtExc(mqtt.topic, mqtt.k, mqtt.p)) THEN MqttIdle
               ELSE [MqttIdle EXCEPT !.pc = "crashed"]
    /\ UNCHANGED <<data, clock, sent, rd, connected, session, server>>

\* the store operation returns: the with block releases the lock and
\* on_message logs the message
MqttReturn ==
    /\ mqtt.pc = "body"
    /\ mqtt.k > NStmts(mqtt.topic)
    /\ lock' = "free"
    /\ log' = Append(log, InfoRecord(IF mqtt.topic = gas_topic THEN "Received gas data"
                                     ELSE "Received RFID data"))
    /\ mqtt' = MqttIdle
    /\ UNCHANGED <<data, clock, sent, rd, connected, session, server>>

\* the getter calls the dashboard callbacks make: the getter, the metric series
\* the callback reads after the timestamps, the node id it asks the status of
ChartCalls ==
    << [getter |-> "get_gas_data", metric |-> "", node |-> <<>>],
       [getter |-> "get_health_data", metric |-> "heartRate", node |-> <<>>],
       [getter |-> "get_environmental_data", metric |-> "humidity", node |-> <<>>],
       [getter |-> "get_gps_data", metric |-> "sat", node |-> <<>>] >>

CheckpointCalls ==
    << [getter |-> "get_rfid_data", metric |-> "", node |-> <<>>],
       [getter |-> "get_checkpoint_status", metric |-> "", node |-> <<"1","2","9","8">>] >>

ReaderCalls(r) == IF r = "chart" THEN ChartCalls ELSE CheckpointCalls

\* self.data[domain].copy(), a shallow copy: the new dict holds the values of
\* the immutable entries and of the 'latest' dict object of the moment, and
\* references to the store's own deques and checkpoint_progress dict;
\* get_checkpoint_status returns a freshly built list
Copy(d, getter, node) ==
    CASE getter = "get_gas_data" -> [NoReturn EXCEPT !.latest = d.gas_sensors.latest]
      [] getter = "get_gps_data" -> [NoReturn EXCEPT !.latest = d.gps_data.latest]
      [] getter = "get_rfid_data" ->
            [NoReturn EXCEPT !.latest_tag = d.rfid_checkpoints.latest_tag,
                             !.latest_station = d.rfid_checkpoints.latest_station]
      [] getter = "get_checkpoint_status" ->
            [NoReturn EXCEPT !.status = get_checkpoint_status(d, node)]
      [] OTHER -> NoReturn

\* the content, at the moment it is read, of the dict a getter returned:
\* the entries copied by value come from ret, those held by reference from d
View(d, getter, ret) ==
    CASE getter = "get_gas_data" ->
            [timestamps |-> d.gas_sensors.timestamps, latest |-> ret.latest]
      [] getter = "get_health_data" -> d.health_sensors
      [] getter = "get_environmental_data" -> d.environmental_sensors
      [] getter = "get_gps_data" -> [d.gps_data EXCEPT !.latest = ret.latest]
      [] getter = "get_rfid_data" ->
            [d.rfid_checkpoints EXCEPT !.latest_tag = ret.latest_tag,
                                       !.latest_station = ret.latest_station]
      [] OTHER -> [status |-> ret.status]

\* a dashboard callback calls a getter
ReaderCall(r) ==
    /\ rd[r].pc = "idle"
    /\ \E i \in 1..Len(ReaderCalls(r)) :
          rd' = [rd EXCEPT ![r] = [ReaderIdle EXCEPT !.pc = "acquire",
                                                     !.getter = ReaderCalls(r)[i].getter,
                                                     !.metric = ReaderCalls(r)[i].metric,
                                                     !.node = ReaderCalls(r)[i].node]]
    /\ UNCHANGED <<data, lock, clock, log, sent, mqtt, connected, session, server>>

\* a getter whose body is not wrapped in `with self.lock:`
ReaderAcquireUnlocked(r) ==
    /\ rd[r].pc = "acquire"
    /\ lock' = r
    /\ rd' = [rd EXCEPT ![r].pc = "body"]
    /\ UNCHANGED <<data, clock, log, sent, mqtt, connected, session, server>>

\* `with self.lock:` of the getter
ReaderAcquire(r) ==
    /\ rd[r].pc = "acquire"
    /\ LockFree(lock)
    /\ lock' = r
    /\ rd' = [rd EXCEPT ![r].pc = "body"]
    /\ UNCHANGED <<data, clock, log, sent, mqtt, connected, session, server>>

\* the getter's body and its return, which releases the lock
ReaderReturn(r) ==
    /\ rd[r].pc = "body"
    /\ lock' = "free"
    /\ rd' = [rd EXCEPT ![r].pc = "returned",
                        ![r].ret = Copy(data, rd[r].getter, rd[r].node)]
    /\ UNCHANGED <<data, clock, log, sent, mqtt, connected, session, server>>

\* the callback reads the returned dict: first its timestamps, then a metric
\* series (update_heartrate_chart: health_data['timestamps'], health_data['heartRate'])
ReaderRead(r) ==
    /\ rd[r].pc = "returned"
    /\ rd[r].metric # ""
    /\ Len(rd[r].seen) < 2
    /\ LET v == View(data, rd[r].getter, rd[r].ret)
       IN  rd' = [rd EXCEPT ![r].seen =
                     Append(@, IF Len(rd[r].seen) = 0 THEN v.timestamps ELSE v[rd[r].metric])]
    /\ UNCHANGED <<data, lock, clock, log, sent, mqtt, connected, session, server>>

\* the callback returns and drops the dict
ReaderDone(r) ==
    /\ rd[r].pc = "returned"
    /\ rd' = [rd EXCEPT ![r] = ReaderIdle]
    /\ UNCHANGED <<data, lock, clock, log, sent, mqtt, connected, session, server>>

MqttReceive ==
    \/ \E i \in 1..Len(ThreadGasPayloads) : MqttDeliver(Msg(gas_topic, ThreadGasPayloads[i]))
    \/ \E i \in 1..Len(ThreadRfidPayloads) : MqttDeliver(Msg(rfid_topic, ThreadRfidPayloads[i]))
    \/ MqttDeliver(BadJson(gas_topic))

NextThreads ==
    \/ MqttReceive
    \/ MqttAcquire
    \/ MqttStmt
    \/ MqttRaise
    \/ MqttReturn
    \/ \E r \in Readers :
          \/ ReaderCall(r)
          \/ ReaderAcquire(r)
          \/ ReaderReturn(r)
          \/ ReaderRead(r)
          \/ ReaderDone(r)

\* the loop thread and the reader threads, one statement at a time
SpecThreads == Init /\ [][NextThreads]_vars

(* ------------------------- one store operation ------------------------ *)

\* the keys add_gas_data reads from the payload
GasKeys ==
    {"heartRate", "spo2", "GSR", "stress", "temperature", "humidity",
     "lat", "lon", "alt", "sat"}

\* a reading of each sensor
Reading ==
    [heartRate |-> Num(88), spo2 |-> Num(98), GSR |-> Num(5), stress |-> Num(1),
     temperature |-> Dec(26, 5), humidity |-> Dec(40, 5),
     lat |-> Dec(12, 5), lon |-> Dec(77, 5), alt |-> Dec(900, 0), sat |-> Num(7)]

\* the combined-sensor payloads of one call: every subset of the keys, each key
\* present holding a reading or each holding -1, and payloads add_gas_data
\* raises on
CallGasPayloads ==
    { Obj([k \in S |-> Reading[k]]) : S \in SUBSET GasKeys }
    \cup { Obj([k \in S |-> Num(-1)]) : S \in SUBSET GasKeys }
    \cup { Obj([heartRate |-> Num(60), lat |-> Str(<<"x">>)]),
           Obj([lon |-> None]),
           NonObj(List) }

\* the station ids of one scan: known zones with numeric remainders (in and
\* beyond the station table), with other remainders, no remainder, unknown
\* zones, the empty string
CallStations ==
    { <<>>, <<"A">>, <<"B">>, <<"Z">>, <<"9">>, <<" ">>,
      <<"A","1">>, <<"A","2">>, <<"A","3">>, <<"A","4">>, <<"A","5">>, <<"A","6">>,
      <<"A","0">>, <<"A","1","0">>, <<"A","1","2">>, <<"A","0","1">>,
      <<"B","1">>, <<"B","2">>, <<"B","4">>, <<"B","9">>,
      <<"C","3">>, <<"C","4">>, <<"C","8">>, <<"C","2","0">>,
      <<"Z","9">>, <<"a","1">>, <<"Z","A","1">>, <<"1","A">>,
      <<"A","x">>, <<"A","-","5">>, <<"A","1","x">>, <<"C","-">>,
      <<"C">>, <<"B","0">>, <<"A","-","1">>, <<"A","-","4">>, <<"B","-","3">>,
      <<"C","-","1","0">>, <<"A","+","2">> }

\* the checkpoint-scan payloads of one call
CallRfidPayloads ==
    { Obj([station_id |-> Str(st), tag_id |-> Str(<<"T","1">>)]) : st \in CallStations }
    \cup { Obj([station_id |-> Str(<<"B","3">>)]),
           Obj([station_id |-> Num(5), tag_id |-> Str(<<"T","1">>)]),
           Obj([station_id |-> None, tag_id |-> Str(<<"T","1">>)]),
           Obj([tag_id |-> Str(<<"T","1">>)]),
           NonObj(List) }

CallMsgs ==
    { Msg(gas_topic, p) : p \in CallGasPayloads }
    \cup { Msg(rfid_topic, p) : p \in CallRfidPayloads }

\* on_message has decoded its first message and is about to call the store
InitCall ==
    /\ data = InitData
    /\ lock = "free"
    /\ clock = 0
    /\ log = <<>>
    /\ \E m \in CallMsgs :
          /\ sent = <<m>>
          /\ mqtt = [pc |-> "acquire", topic |-> m.topic, p |-> m.value, ts |-> None, k |-> 0]
    /\ rd = [r \in Readers |-> ReaderIdle]
    /\ connected = FALSE
    /\ session = <<>>
    /\ server = ServerInit

NextCall == MqttAcquire \/ MqttStmt \/ MqttRaise \/ MqttReturn

\* one call of add_gas_data or add_rfid_data on the store __init__ built,
\* for each payload
SpecCall == InitCall /\ [][NextCall]_vars

(* ------------------------- waiting for the lock ----------------------- *)

\* number of messages delivered while the readers keep calling getters
MaxLockMsgs == 1

\* the messages delivered then: a batch, two messages whose store operation
\* raises (inside add_gas_data after its first writes, inside add_rfid_data
\* before any), a scan
LockMsgs ==
    << Msg(gas_topic, Obj([heartRate |-> Num(88), temperature |-> Dec(26, 5)])),
       Msg(gas_topic, NonObj(List)),
       Msg(rfid_topic, Obj([station_id |-> Str(<<"A","x">>), tag_id |-> Str(<<"T","1">>)])),
       Msg(rfid_topic, Obj([station_id |-> Str(<<"A","1">>), tag_id |-> Str(<<"T","1">>)])) >>

LockDeliver(m) ==
    /\ Len(sent) < MaxLockMsgs
    /\ MqttDeliver(m)

NextLock ==
    \/ \E i \in 1..Len(LockMsgs) : LockDeliver(LockMsgs[i])
    \/ MqttAcquire
    \/ MqttStmt
    \/ MqttRaise
    \/ MqttReturn
    \/ \E r \in Readers :
          \/ ReaderCall(r)
          \/ ReaderAcquire(r)
          \/ ReaderReturn(r)
          \/ ReaderRead(r)
          \/ ReaderDone(r)

\* fair scheduling: a thread inside a store operation or a getter keeps
\* running (weak fairness of its steps), and a thread blocked in
\* lock.acquire() gets the lock if it is free again and again (strong
\* fairness); nothing makes messages arrive or callbacks fire
SpecLock ==
    /\ Init
    /\ [][NextLock]_vars
    /\ WF_vars(MqttStmt)
    /\ WF_vars(MqttRaise)
    /\ WF_vars(MqttReturn)
    /\ SF_vars(MqttAcquire)
    /\ \A r \in Readers : WF_vars(ReaderReturn(r)) /\ SF_vars(ReaderAcquire(r))

(* --------------------------- sequences of scans ------------------------ *)

\* number of scans in a sequence
MaxScans == 3

\* the station ids scanned: the twelve of the station table, numbers beyond it,
\* node ids and an unknown zone given as stations, no station, a remainder that
\* is no number
ScanStations ==
    { <<z, i>> : z \in {"A", "B", "C"}, i \in {"1", "2", "3", "4"} }
    \cup { <<"A","5">>, <<"A","7">>, <<"C","0">>, <<"1","7","5","3">>, <<"3","1","3","4">>,
           <<"Z","9">>, <<>>, <<"A","x">> }

ScanAt(st) ==
    /\ Len(sent) < MaxScans
    /\ OnMessage(Msg(rfid_topic, Obj([station_id |-> Str(st), tag_id |-> Str(<<"T","1">>)])))

NextScans == \E st \in ScanStations : ScanAt(st)

SpecScans == Init /\ [][NextScans]_vars

(* ------------------- the gas server's two threads --------------------- *)

\* number of messages the gas server receives
MaxServerMsgs == 2

\* the messages the broker delivers to the gas server: three readings (the
\* third without CH4, Propane and Butane), a JSON list, invalid JSON, invalid
\* UTF-8, a message of another topic
ServerMsgs ==
    << Msg(gas_topic, Obj([LPG |-> Dec(125, 1), CH4 |-> Dec(67, 4), Propane |-> Dec(94, 1),
                           Butane |-> Dec(109, 3), H2 |-> Dec(68, 4)])),
       Msg(gas_topic, Obj([LPG |-> Dec(130, 0), CH4 |-> Dec(70, 2), Propane |-> Dec(95, 5),
                           Butane |-> Dec(110, 0), H2 |-> Dec(69, 9)])),
       Msg(gas_topic, Obj([LPG |-> Dec(120, 5), H2 |-> Dec(60, 0)])),
       Msg(gas_topic, NonObj(List)),
       BadJson(gas_topic),
       BadUtf8(gas_topic),
       Msg(other_topic, Obj(<<>>)) >>

\* the order in which parse_gas_sensor_data assigns the keys of gas_data
\* (lines 66-71)
WriteOrder == <<"LPG", "CH4", "Propane", "Butane", "H2", "timestamp">>

\* the order in which print_gas_summary reads them (lines 123-128)
ReadOrder == <<"timestamp", "LPG", "CH4", "Propane", "Butane", "H2">>

\* message m gets as far as the assignments of parse_gas_sensor_data: it
\* decodes, is on the gas topic, parses, and data.get exists
ServerStores(m) == m.utf8 /\ m.topic = gas_topic /\ m.json /\ m.value.t = "dict"

\* on_message up to line 63 of parse_gas_sensor_data: a message that does not
\* decode, is on another topic, does not parse or is no object is logged and
\* dropped with gas_data untouched; otherwise timestamp is taken and the
\* assignments are about to run
ServerOnMessage(m) ==
    /\ server.loop.pc = "idle"
    /\ Len(server.received) < MaxServerMsgs
    /\ server' = [server EXCEPT
          !.received = Append(@, [m |-> m, ts |-> Time(server.now)]),
          !.now = @ + 1,
          !.loop = IF ServerStores(m)
                   THEN [pc |-> "write", k |-> 1, d |-> m.value.d, ts |-> Time(server.now)]
                   ELSE @]
    /\ UNCHANGED <<data, lock, clock, log, sent, mqtt, rd, connected, session>>

\* one assignment gas_data[key] = ... of lines 66-71; the logging calls after
\* the last one write nothing to gas_data
ServerWrite ==
    /\ server.loop.pc = "write"
    /\ LET key == WriteOrder[server.loop.k]
           val == IF key = "timestamp" THEN server.loop.ts ELSE Get(server.loop.d, key, None)
       IN  server' = [server EXCEPT
              !.gas_data[key] = val,
              !.loop = IF server.loop.k = Len(WriteOrder) THEN LoopIdle
                       ELSE [@ EXCEPT !.k = @ + 1]]
    /\ UNCHANGED <<data, lock, clock, log, sent, mqtt, rd, connected, session>>

\* time.sleep(30) returns
SummaryWake ==
    /\ server.summary.pc = "sleep"
    /\ server' = [server EXCEPT !.summary = [pc |-> "test", k |-> 0, seen |-> <<>>]]
    /\ UNCHANGED <<data, lock, clock, log, sent, mqtt, rd, connected, session>>

\* `if gas_data["timestamp"]:` (line 122)
SummaryTest ==
    /\ server.summary.pc = "test"
    /\ server' = [server EXCEPT
          !.summary = IF server.gas_data.timestamp # None
                      THEN [pc |-> "read", k |-> 1, seen |-> <<>>]
                      ELSE SummaryAsleep]
    /\ UNCHANGED <<data, lock, clock, log, sent, mqtt, rd, connected, session>>

\* one of the six logging.info lines 123-128: it reads one key of gas_data
SummaryRead ==
    /\ server.summary.pc = "read"
    /\ LET key == ReadOrder[server.summary.k]
       IN  server' = [server EXCEPT
              !.summary = [pc |-> IF server.summary.k = Len(ReadOrder) THEN "done" ELSE "read",
                           k |-> server.summary.k + 1,
                           seen |-> Put(server.summary.seen, key, server.gas_data[key])]]
    /\ UNCHANGED <<data, lock, clock, log, sent, mqtt, rd, connected, session>>

\* the closing line of the summary is logged and the loop sleeps again
SummarySleep ==
    /\ server.summary.pc = "done"
    /\ server' = [server EXCEPT !.summary = SummaryAsleep]
    /\ UNCHANGED <<data, lock, clock, log, sent, mqtt, rd, connected, session>>

NextServer ==
    \/ \E i \in 1..Len(ServerMsgs) : ServerOnMessage(ServerMsgs[i])
    \/ ServerWrite
    \/ SummaryWake
    \/ SummaryTest
    \/ SummaryRead
    \/ SummarySleep

SpecServer == Init /\ [][NextServer]_vars

(* ----------------------- the transport session ------------------------ *)

\* number of connect / disconnect callbacks the transport makes
MaxSession == 3

\* number of messages delivered among them
MaxSessionMsgs == 2

\* the return codes the broker answers a connection attempt with: accepted,
\* refused (not authorised)
ReturnCodes == {0, 5}

\* on_connect answering every return code as a success
OnConnectAnyRc(rc) ==
    /\ mqtt.pc = "idle"
    /\ Len(session) < MaxSession
    /\ session' = Append(session, [cb |-> "on_connect", rc |-> rc])
    /\ connected' = TRUE
    /\ log' = log \o << InfoRecord("Connected to MQTT broker"),
                        InfoRecord("Subscribed to LOKI_2004"),
                        InfoRecord("Subscribed to rfid") >>
    /\ UNCHANGED <<data, lock, clock, sent, mqtt, rd, server>>

\* MQTTClient.on_connect(client, userdata, flags, rc), called on the loop
\* thread; the two client.subscribe calls act on the transport and leave their
\* log records
OnConnect(rc) ==
    /\ mqtt.pc = "idle"
    /\ Len(session) < MaxSession
    /\ session' = Append(session, [cb |-> "on_connect", rc |-> rc])
    /\ IF rc = 0
       THEN /\ connected' = TRUE
            /\ log' = log \o << InfoRecord("Connected to MQTT broker"),
                                InfoRecord("Subscribed to LOKI_2004"),
                                InfoRecord("Subscribed to rfid") >>
       ELSE /\ connected' = connected
            /\ log' = Append(log, ErrorRecord("Failed to connect to MQTT broker"))
    /\ UNCHANGED <<data, lock, clock, sent, mqtt, rd, server>>

\* MQTTClient.on_disconnect(client, userdata, rc): rc is not looked at
OnDisconnect(rc) ==
    /\ mqtt.pc = "idle"
    /\ Len(session) < MaxSession
    /\ session' = Append(session, [cb |-> "on_disconnect", rc |-> rc])
    /\ connected' = FALSE
    /\ log' = Append(log, InfoRecord("Disconnected from MQTT broker"))
    /\ UNCHANGED <<data, lock, clock, sent, mqtt, rd, server>>

\* the messages delivered during a session
SessionMsgs ==
    << Msg(gas_topic, Obj([heartRate |-> Num(88), temperature |-> Dec(26, 5)])),
       Msg(rfid_topic, Obj([station_id |-> Str(<<"A","1">>), tag_id |-> Str(<<"T","1">>)])),
       Msg(gas_topic, NonObj(List)),
       BadJson(rfid_topic) >>

\* on_message storing a message only while the client is connected
SessionDeliverGated(m) ==
    /\ Len(sent) < MaxSessionMsgs
    /\ IF connected THEN OnMessage(m)
       ELSE /\ mqtt.pc = "idle"
            /\ sent' = Append(sent, m)
            /\ UNCHANGED <<data, lock, clock, log, mqtt, rd, connected, session, server>>

\* the transport delivers a message between two session callbacks
SessionDeliver(m) ==
    /\ Len(sent) < MaxSessionMsgs
    /\ OnMessage(m)

NextSession ==
    \/ \E rc \in ReturnCodes : OnConnect(rc)
    \/ \E rc \in ReturnCodes : OnDisconnect(rc)
    \/ \E i \in 1..Len(SessionMsgs) : SessionDeliver(SessionMsgs[i])

\* the callbacks of the transport's loop thread, one at a time
SpecSession == Init /\ [][NextSession]_vars

(* ------------------------ the delivered history ----------------------- *)

\* message m reaches a store operation: it decodes and its topic is subscribed
ReachesStore(m) == DecodeExc(m) = "" /\ m.topic \in {gas_topic, rfid_topic}

\* message m is a call of add_gas_data
IsGasCall(m) == ReachesStore(m) /\ m.topic = gas_topic

\* message m is an ingested batch: a call of add_gas_data with an object payload
IsBatch(m) == IsGasCall(m) /\ m.value.t = "dict"

\* the datetime.now() reading taken by the store operation of the j-th message:
\* the loop thread handles the messages one after another
TimeOf(s, j) == Time(Cardinality({i \in 1..(j - 1) : ReachesStore(s[i])}))

\* the indices from j on, in order, of the messages of s that are calls of
\* add_gas_data
RECURSIVE GasCallsFrom(_, _)
GasCallsFrom(s, j) ==
    IF j > Len(s) THEN <<>>
    ELSE (IF IsGasCall(s[j]) THEN <<j>> ELSE <<>>) \o GasCallsFrom(s, j + 1)

\* the store and the clock after on_message has handled the messages of s in order
RECURSIVE Replay(_, _, _)
Replay(s, d, clk) ==
    IF s = <<>> THEN [data |-> d, clock |-> clk]
    ELSE LET r == on_message(d, clk, Head(s))
         IN  Replay(Tail(s), r.data, r.clock)

\* the telemetry series of the store: the (domain, key) of every deque that
\* add_gas_data appends to
Series ==
    { <<"gas_sensors", "timestamps">> }
    \cup { <<"health_sensors", k>> : k \in {"timestamps", "heartRate", "spo2", "GSR", "stress"} }
    \cup { <<"environmental_sensors", k>> : k \in {"timestamps", "temperature", "humidity"} }
    \cup { <<"gps_data", k>> : k \in {"timestamps", "lat", "lon", "alt", "sat"} }

Min(a, b) == IF a < b THEN a ELSE b

(* ------------------------------ claims -------------------------------- *)

\* C1 (snapshot isolation): while a reader holds the dict a getter returned,
\* no step changes the content of that dict: its series stay what they were
\* when the getter returned, whatever the loop thread appends meanwhile.
C1_SnapshotIsolation ==
    [][\A r \in Readers :
          (/\ rd[r].pc = "returned"
           /\ rd'[r].pc = "returned"
           /\ rd[r].getter # "get_checkpoint_status")
          => View(data', rd'[r].getter, rd'[r].ret) = View(data, rd[r].getter, rd[r].ret)]_vars

\* C2 (first-pass-wins): once checkpoint_progress[node][checkpoint] is set,
\* no later scan changes it, and get_checkpoint_status keeps reporting the
\* timestamp of the first scan of every passed checkpoint.
C2_FirstPassWins ==
    [][LET P == data.rfid_checkpoints.checkpoint_progress
           Q == data'.rfid_checkpoints.checkpoint_progress
       IN  /\ \A n \in DOMAIN P : \A c \in DOMAIN P[n] :
                 n \in DOMAIN Q /\ c \in DOMAIN Q[n] /\ Q[n][c] = P[n][c]
           /\ \A n \in DOMAIN active_checkpoints :
                 LET before == get_checkpoint_status(data, n)
                     after == get_checkpoint_status(data', n)
                 IN  \A i \in 1..Len(before) : before[i][2] => after[i] = before[i]]_vars

\* C3 (time alignment): whenever no add_gas_data call is in progress, all
\* deques of health_sensors, environmental_sensors and gps_data have the same
\* length and the three timestamps deques are equal entry by entry.
C3_TimeAligned ==
    mqtt.pc = "idle" =>
        /\ \A a \in Series \ {<<"gas_sensors", "timestamps">>} :
              Len(data[a[1]][a[2]]) = Len(data.health_sensors.timestamps)
        /\ data.environmental_sensors.timestamps = data.health_sensors.timestamps
        /\ data.gps_data.timestamps = data.health_sensors.timestamps

\* one new entry was appended to deque q, giving q2
ReceivedOne(q, q2) == q2 # <<>> /\ q2 = DequeAppend(q, q2[Len(q2)])

\* C4 (all-or-nothing append): a call of add_gas_data, whatever its decoded
\* payload, leaves the store either exactly as it was or with one new entry
\* in every telemetry deque and both latest mappings replaced by the payload's.
C4_AllOrNothing ==
    [][(Len(sent') = Len(sent) + 1 /\ IsGasCall(sent'[Len(sent')]))
       => \/ data' = data
          \/ /\ \A a \in Series : ReceivedOne(data[a[1]][a[2]], data'[a[1]][a[2]])
             /\ data'.gas_sensors.latest = GasLatest(sent'[Len(sent')].value, Time(clock))
             /\ data'.gps_data.latest = GpsLatest(sent'[Len(sent')].value)]_vars

\* C5 (dropped messages leave no trace): whenever on_message handles a
\* message by logging an error, the store is what it was before the message.
C5_DroppedNoTrace ==
    [][(Len(log') = Len(log) + 1 /\ log'[Len(log')].level = "error") => data' = data]_vars

\* the messages of s whose payload is valid UTF-8 JSON
RECURSIVE WellFormed(_)
WellFormed(s) ==
    IF s = <<>> THEN <<>>
    ELSE (IF Head(s).utf8 /\ Head(s).json THEN <<Head(s)>> ELSE <<>>) \o WellFormed(Tail(s))

\* C6 (malformed payloads are dropped): the store and the clock are those
\* that result from the well-formed messages alone, on_message has returned,
\* and every malformed message was answered by exactly one error record.
C6_MalformedDropped ==
    LET r == Replay(WellFormed(sent), InitData, 0)
        bad == {i \in 1..Len(sent) : DecodeExc(sent[i]) # ""}
        errs == {i \in 1..Len(log) : log[i].text \in {"UnicodeDecodeError", "JSONDecodeError"}}
    IN  mqtt.pc = "idle" =>
           /\ data = r.data
           /\ clock = r.clock
           /\ lock = "free"
           /\ Cardinality(errs) = Cardinality(bad)

\* a malformed message of a subscribed topic was dropped and a later batch stored
C6_Witness ==
    \E i \in 1..Len(sent) : \E j \in 1..Len(sent) :
        /\ i < j
        /\ DecodeExc(sent[i]) # "" /\ sent[i].topic \in {gas_topic, rfid_topic}
        /\ IsBatch(sent[j])
        /\ Len(data.health_sensors.heartRate) = 1
        /\ log[Len(log)].level = "info"

\* the batches whose add_gas_data call has ended
CompletedBatches ==
    {j \in 1..Len(sent) : IsBatch(sent[j]) /\ (j < Len(sent) \/ mqtt.pc = "idle")}

LastCompletedBatch ==
    IF CompletedBatches = {} THEN 0
    ELSE CHOOSE j \in CompletedBatches : \A i \in CompletedBatches : i <= j

\* the 'latest' mappings batch j leaves behind (batch 0: those of __init__)
GasLatestOf(j) ==
    IF j = 0 THEN InitData.gas_sensors.latest
    ELSE GasLatest(sent[j].value, TimeOf(sent, j))

GpsLatestOf(j) ==
    IF j = 0 THEN InitData.gps_data.latest ELSE GpsLatest(sent[j].value)

\* C7 (latest is a single-batch value): while get_gas_data / get_gps_data
\* holds the lock the 'latest' mapping is that of the batch completed last,
\* and the mapping a reader got from either getter is that of one batch.
C7_LatestSingleBatch ==
    \A r \in Readers :
        /\ (rd[r].pc = "body" /\ rd[r].getter = "get_gas_data")
              => data.gas_sensors.latest = GasLatestOf(LastCompletedBatch)
        /\ (rd[r].pc = "body" /\ rd[r].getter = "get_gps_data")
              => data.gps_data.latest = GpsLatestOf(LastCompletedBatch)
        /\ (rd[r].pc = "returned" /\ rd[r].getter = "get_gas_data")
              => \E j \in {0} \cup {i \in 1..Len(sent) : IsBatch(sent[i])} :
                    rd[r].ret.latest = GasLatestOf(j)
        /\ (rd[r].pc = "returned" /\ rd[r].getter = "get_gps_data")
              => \E j \in {0} \cup {i \in 1..Len(sent) : IsBatch(sent[i])} :
                    rd[r].ret.latest = GpsLatestOf(j)

\* a reader holds the latest mapping of the first of two batches while the
\* loop thread is inside add_gas_data for the second
C7_Witness ==
    /\ rd["chart"].pc = "returned" /\ rd["chart"].getter = "get_gas_data"
    /\ CompletedBatches # {}
    /\ rd["chart"].ret.latest = GasLatestOf(LastCompletedBatch)
    /\ mqtt.pc = "body" /\ mqtt.topic = gas_topic /\ mqtt.k > 16
    /\ IsBatch(sent[Len(sent)])

\* C8 (no mid-batch observation): the timestamps deque and the metric deque
\* a callback reads from the dict a getter returned have the same length.
C8_NoMidBatch ==
    \A r \in Readers :
        Len(rd[r].seen) = 2 => Len(rd[r].seen[1]) = Len(rd[r].seen[2])

\* the threads inside a lock-protected body
InBody == {r \in Readers : rd[r].pc = "body"} \cup (IF mqtt.pc = "body" THEN {"mqtt"} ELSE {})

\* C9 (mutual exclusion): at most one thread is inside a lock-protected body,
\* it is the thread holding the lock, and get_checkpoint_status never runs on
\* a checkpoint_progress that add_rfid_data has half updated (a node entry
\* created and still empty).
C9_MutualExclusion ==
    /\ Cardinality(InBody) <= 1
    /\ \A t \in InBody : lock = t
    /\ (InBody = {}) => lock = "free"
    /\ \A r \in Readers :
          (rd[r].pc = "body" /\ rd[r].getter = "get_checkpoint_status")
          => \A n \in DOMAIN data.rfid_checkpoints.checkpoint_progress :
                data.rfid_checkpoints.checkpoint_progress[n] # <<>>

\* the loop thread is inside add_rfid_data, between creating the node's entry
\* and setting the checkpoint, while both readers wait for the lock
C9_Witness ==
    /\ mqtt.pc = "body" /\ mqtt.topic = rfid_topic /\ mqtt.k = 7
    /\ \A r \in Readers : rd[r].pc = "acquire"
    /\ rd["checkpoints"].getter = "get_checkpoint_status"

\* C10 (bounded FIFO): no telemetry deque is longer than max_points, and
\* after k add_gas_data calls, all with object payloads, every telemetry deque
\* holds the entries of the last min(k, max_points) calls, oldest first.
C10_BoundedFifo ==
    LET calls == GasCallsFrom(sent, 1)
        k == Len(calls)
        n == Min(k, max_points)
    IN  /\ \A a \in Series : Len(data[a[1]][a[2]]) <= max_points
        /\ (mqtt.pc = "idle" /\ \A i \in 1..k : IsBatch(sent[calls[i]]))
              => /\ \A a \in Series : Len(data[a[1]][a[2]]) = n
                 /\ \A i \in 1..n :
                       LET j == calls[k - n + i]
                           \* what the j-th message's call appends to each series
                           entry == add_gas_data(InitData, sent[j].value, TimeOf(sent, j)).data
                       IN  \A a \in Series :
                              data[a[1]][a[2]][i] =
                                  IF a[2] = "timestamps" THEN TimeOf(sent, j)
                                  ELSE entry[a[1]][a[2]][1]

\* more batches than max_points were ingested: the oldest entry was evicted
C10_Witness ==
    LET calls == GasCallsFrom(sent, 1)
    IN  /\ Len(calls) > max_points
        /\ \A i \in 1..Len(calls) : IsBatch(sent[calls[i]])
        /\ Len(data.gps_data.sat) = max_points
        /\ data.health_sensors.timestamps[1] # TimeOf(sent, calls[1])

\* the metrics that have a sentinel, and the sentinel of each (-1 and -1.0)
Sentinels ==
    [heartRate |-> Num(-1), spo2 |-> Num(-1),
     temperature |-> Dec(-1, 0), humidity |-> Dec(-1, 0)]

\* the payload of the call the loop thread has completed (one-call runs)
CallDone == mqtt.pc = "idle" /\ Len(sent) = 1

\* the 'latest' mapping get_gas_data returns in this state
LatestReturned == Copy(data, "get_gas_data", <<>>).latest

MetricSeries(key) ==
    IF key \in {"heartRate", "spo2"} THEN data.health_sensors[key]
    ELSE data.environmental_sensors[key]

\* C12 (sentinel translation in the series): the entry a call of add_gas_data
\* appends to the heartRate, spo2, temperature or humidity series is null when
\* the payload's value equals the metric's sentinel (-1, -1.0) and the
\* payload's value itself otherwise.
C12_SentinelTranslated ==
    (CallDone /\ IsBatch(sent[1])) =>
        \A key \in DOMAIN Sentinels \cap DOMAIN sent[1].value.d :
            MetricSeries(key) =
                IF sent[1].value.d[key] = Sentinels[key] THEN <<None>>
                ELSE <<sent[1].value.d[key]>>

\* a payload giving every key as -1 was ingested
C12_Witness ==
    /\ CallDone
    /\ IsBatch(sent[1])
    /\ DOMAIN sent[1].value.d = GasKeys
    /\ data.health_sensors.spo2 = <<None>>
    /\ data.environmental_sensors.humidity = <<None>>
    /\ data.health_sensors.GSR = <<Num(-1)>>

\* the series of a metric that has no sentinel
PlainSeries(key) ==
    IF key \in {"GSR", "stress"} THEN data.health_sensors[key] ELSE data.gps_data[key]

\* C13 (per-field defaults): for every object payload a missing GSR, stress,
\* lat, lon, alt or sat appends 0 and a present one is appended as given, a
\* missing heartRate, spo2, temperature or humidity appends null; and for
\* every subset of present keys (with numbers for lat and lon) add_gas_data
\* completes, having appended one entry to every series.
C13_FieldDefaults ==
    (CallDone /\ IsBatch(sent[1])) =>
        LET p == sent[1].value.d IN
        /\ \A key \in GasKeys \ DOMAIN Sentinels :
              PlainSeries(key) = <<IF key \in DOMAIN p THEN p[key] ELSE Num(0)>>
        /\ \A key \in DOMAIN Sentinels \ DOMAIN p : MetricSeries(key) = <<None>>
        /\ (\A key \in {"lat", "lon"} \cap DOMAIN p : p[key].t = "num")
              => /\ log = <<InfoRecord("Received gas data")>>
                 /\ \A a \in Series : Len(data[a[1]][a[2]]) = 1

\* the empty object was ingested: every series got its default
C13_Witness ==
    /\ CallDone
    /\ sent[1] = Msg(gas_topic, Obj(<<>>))
    /\ log = <<InfoRecord("Received gas data")>>
    /\ data.health_sensors.GSR = <<Num(0)>>
    /\ data.gps_data.lat = <<Num(0)>>
    /\ data.health_sensors.heartRate = <<None>>
    /\ data.environmental_sensors.humidity = <<None>>

\* the completed call is a scan whose station_id (given or defaulted) is a string
ScanOfString ==
    /\ CallDone
    /\ sent[1].topic = rfid_topic
    /\ sent[1].value.t = "dict"
    /\ Get(sent[1].value.d, "station_id", Str(<<>>)).t = "str"

\* C14 (station resolution never fails): for every string station_id
\* add_rfid_data completes without raising and appends exactly one ScanRecord,
\* whose station is the one given.
C14_ResolutionTotal ==
    ScanOfString =>
        /\ log = <<InfoRecord("Received RFID data")>>
        /\ Len(data.rfid_checkpoints.uid_scans) = 1
        /\ Len(data.rfid_checkpoints.timestamps) = 1
        /\ data.rfid_checkpoints.uid_scans[1].station_id
              = Get(sent[1].value.d, "station_id", Str(<<>>))

\* the scan record of the completed call
Scan == data.rfid_checkpoints.uid_scans[1]

\* the station id of the completed scan
ScanStation == sent[1].value.d.station_id.s

\* the completed call is a scan at a station of zone A, B or C whose remainder
\* is a decimal numeral
ScanOfNumbered ==
    /\ ScanOfString
    /\ "station_id" \in DOMAIN sent[1].value.d
    /\ Len(ScanStation) > 1
    /\ ScanStation[1] \in {"A", "B", "C"}
    /\ \A i \in 2..Len(ScanStation) : DigitVal(ScanStation[i]) >= 0

\* C15 (station resolution): a scan at station zone + numeral n is recorded
\* with node zone_nodes[zone][(n - 1) mod 3] and with the checkpoint the
\* station table gives for the station id, or "Station " + station id; "A1" is
\* node 1298 at "Entry Gate", "A5" node 1753, "A0" node 1456.
C15_StationResolution ==
    ScanOfNumbered =>
        LET n == DigitsVal(Tail(ScanStation))
            known == ScanStation[2] \in {"1", "2", "3", "4"} /\ Len(ScanStation) = 2
        IN  /\ Len(data.rfid_checkpoints.uid_scans) = 1
            /\ Scan.node_id = zone_nodes[ScanStation[1]][((n + 2) % 3) + 1]
            /\ known => Scan.checkpoint = checkpoint_mapping[ScanStation]
            /\ ~known => Scan.checkpoint = <<"S","t","a","t","i","o","n"," ">> \o ScanStation
            /\ ScanStation = <<"A","1">>
                  => /\ Scan.node_id = <<"1","2","9","8">>
                     /\ Scan.checkpoint = <<"E","n","t","r","y"," ","G","a","t","e">>
            /\ ScanStation = <<"A","5">> => Scan.node_id = <<"1","7","5","3">>
            /\ ScanStation = <<"A","0">> => Scan.node_id = <<"1","4","5","6">>
            /\ ScanStation = <<"C","2","0">> => Scan.node_id = <<"3","0","6","7">>

\* station "A5" was scanned: zone A's second node, a checkpoint outside the table
C15_Witness ==
    /\ ScanOfNumbered
    /\ ScanStation = <<"A","5">>
    /\ Scan.node_id = <<"1","7","5","3">>
    /\ Scan.checkpoint = <<"S","t","a","t","i","o","n"," ","A","5">>

\* the completed call is a scan at a non-empty station id outside zones A, B, C
ScanOfUnmapped ==
    /\ ScanOfString
    /\ "station_id" \in DOMAIN sent[1].value.d
    /\ ScanStation # <<>>
    /\ ScanStation[1] \notin {"A", "B", "C"}

\* C16 (unmapped zone fallback): a scan at a non-empty station id whose first
\* character is not A, B or C is recorded with the station id as its node and
\* "Station " + station id as its checkpoint, and
\* checkpoint_progress[station id]["Station " + station id] is set to the
\* scan's timestamp.
C16_UnmappedFallback ==
    ScanOfUnmapped =>
        LET name == <<"S","t","a","t","i","o","n"," ">> \o ScanStation
            progress == data.rfid_checkpoints.checkpoint_progress
        IN  /\ log = <<InfoRecord("Received RFID data")>>
            /\ Len(data.rfid_checkpoints.uid_scans) = 1
            /\ Scan.node_id = ScanStation
            /\ Scan.checkpoint = name
            /\ DOMAIN progress = {ScanStation}
            /\ DOMAIN progress[ScanStation] = {name}
            /\ progress[ScanStation][name] = Scan.timestamp
            /\ Scan.timestamp = Time(0)

\* station "a1" was scanned: lowercase is no zone
C16_Witness ==
    /\ ScanOfUnmapped
    /\ ScanStation = <<"a","1">>
    /\ Scan.node_id = <<"a","1">>
    /\ <<"a","1">> \in DOMAIN data.rfid_checkpoints.checkpoint_progress

\* C17 (monotonic pass state): no step removes a node or a checkpoint from
\* checkpoint_progress, and a checkpoint get_checkpoint_status reports as
\* passed is reported as passed after every further step, whether a scan, a
\* batch or a dropped message.
C17_MonotonicPass ==
    [][LET P == data.rfid_checkpoints.checkpoint_progress
           Q == data'.rfid_checkpoints.checkpoint_progress
       IN  /\ \A n \in DOMAIN P : n \in DOMAIN Q /\ DOMAIN P[n] \subseteq DOMAIN Q[n]
           /\ \A n \in DOMAIN active_checkpoints \cup DOMAIN P :
                 LET before == get_checkpoint_status(data, n)
                     after == get_checkpoint_status(data', n)
                 IN  /\ Len(after) = Len(before)
                     /\ \A i \in 1..Len(before) :
                           /\ after[i][1] = before[i][1]
                           /\ before[i][2] => after[i][2]]_vars

\* "Entry Gate" of node 1298 is still reported as passed after a further scan
\* at the same node and a batch
C17_Witness ==
    /\ Len(sent) = 3
    /\ sent[1] = Msg(rfid_topic, RfidPayloads[1])
    /\ sent[2] = Msg(rfid_topic, RfidPayloads[2])
    /\ IsBatch(sent[3])
    /\ get_checkpoint_status(data, <<"1","2","9","8">>)[1][2]
    /\ get_checkpoint_status(data, <<"1","2","9","8">>)[4][2]

\* node ids a caller may ask the status of: the configured nodes, the nodes
\* checkpoint_progress holds, a node id found in neither, the empty string
AskedNodes ==
    DOMAIN active_checkpoints \cup DOMAIN data.rfid_checkpoints.checkpoint_progress
    \cup {<<"9","9","9","9">>, <<>>}

\* C18 (status completeness and order): get_checkpoint_status(node) has one
\* entry per checkpoint configured for the node, in the configured order (none
\* for a node without configured checkpoints); an entry is passed, with a
\* non-null timestamp, exactly when its checkpoint is a key of
\* checkpoint_progress[node], and pending with a null timestamp otherwise.
C18_StatusComplete ==
    \A n \in AskedNodes :
        LET status == get_checkpoint_status(data, n)
            configured == IF n \in DOMAIN active_checkpoints THEN active_checkpoints[n] ELSE <<>>
            P == data.rfid_checkpoints.checkpoint_progress
            keys == IF n \in DOMAIN P THEN DOMAIN P[n] ELSE {}
        IN  /\ Len(status) = Len(configured)
            /\ \A i \in 1..Len(status) :
                  /\ status[i][1] = configured[i]
                  /\ status[i][2] <=> configured[i] \in keys
                  /\ status[i][2] => status[i][3].t = "time" /\ status[i][3] = P[n][configured[i]]
                  /\ ~status[i][2] => status[i][3] = None

\* node 1298 has passed two of its four checkpoints, and node "Z9", which has
\* progress but no configured checkpoints, has an empty status
C18_Witness ==
    LET status == get_checkpoint_status(data, <<"1","2","9","8">>)
    IN  /\ Len(status) = 4
        /\ status[1][2] /\ ~status[2][2] /\ ~status[3][2] /\ status[4][2]
        /\ <<"Z","9">> \in DOMAIN data.rfid_checkpoints.checkpoint_progress
        /\ get_checkpoint_status(data, <<"Z","9">>) = <<>>

\* the step is a completed call of add_rfid_data
ScanStep ==
    /\ Len(sent') = Len(sent) + 1
    /\ sent'[Len(sent')].topic = rfid_topic
    /\ Len(log') = Len(log) + 1
    /\ log'[Len(log')] = InfoRecord("Received RFID data")

\* C19 (effect of one scan): a completed add_rfid_data call appends one
\* ScanRecord (tag, station, node, checkpoint, timestamp) and its timestamp to
\* the scan history, sets latest_tag and latest_station to the scan's, changes
\* at most the checkpoint_progress entry of the record's (node, checkpoint),
\* and leaves every other progress entry, the configured checkpoints, every
\* telemetry deque and both latest mappings as they were.
C19_ScanFrame ==
    [][ScanStep =>
        LET R == data.rfid_checkpoints
            R2 == data'.rfid_checkpoints
            p == sent'[Len(sent')].value.d
            rec == R2.uid_scans[Len(R2.uid_scans)]
            P == R.checkpoint_progress
            Q == R2.checkpoint_progress
        IN  /\ ReceivedOne(R.uid_scans, R2.uid_scans)
            /\ ReceivedOne(R.timestamps, R2.timestamps)
            /\ DOMAIN rec = {"tag_id", "station_id", "node_id", "checkpoint", "timestamp"}
            /\ rec.tag_id = Get(p, "tag_id", Str(<<>>))
            /\ rec.station_id = Get(p, "station_id", Str(<<>>))
            /\ rec.timestamp = Time(clock)
            /\ R2.timestamps[Len(R2.timestamps)] = Time(clock)
            /\ R2.latest_tag = rec.tag_id
            /\ R2.latest_station = rec.station_id
            /\ DOMAIN P \subseteq DOMAIN Q
            /\ DOMAIN Q \subseteq DOMAIN P \cup {rec.node_id}
            /\ \A n \in DOMAIN Q :
                  /\ n # rec.node_id => n \in DOMAIN P /\ Q[n] = P[n]
                  /\ \A c \in DOMAIN Q[n] \ {rec.checkpoint} :
                        n \in DOMAIN P /\ c \in DOMAIN P[n] /\ Q[n][c] = P[n][c]
                  /\ n \in DOMAIN P => DOMAIN P[n] \subseteq DOMAIN Q[n]
            /\ R2.active_checkpoints = R.active_checkpoints
            /\ data'.gas_sensors = data.gas_sensors
            /\ data'.health_sensors = data.health_sensors
            /\ data'.environmental_sensors = data.environmental_sensors
            /\ data'.gps_data = data.gps_data]_vars

\* station A4 was scanned after station A1 and a batch: node 1298 holds both
\* checkpoints and the batch is still in the series
C19_Witness ==
    /\ Len(sent) = 3
    /\ sent[3] = Msg(rfid_topic, RfidPayloads[2])
    /\ data.rfid_checkpoints.latest_station = Str(<<"A","4">>)
    /\ Len(data.health_sensors.heartRate) = 1
    /\ <<"1","2","9","8">> \in DOMAIN data.rfid_checkpoints.checkpoint_progress
    /\ Cardinality(DOMAIN data.rfid_checkpoints.checkpoint_progress[<<"1","2","9","8">>]) = 2
    /\ log[Len(log)] = InfoRecord("Received RFID data")

\* message m is a recorded scan: a call of add_rfid_data that completes
IsScan(m) == ReachesStore(m) /\ m.topic = rfid_topic /\ RfidExc(1, m.value) = ""

\* the indices in `sent` of the recorded scans
ScanIndices == {j \in 1..Len(sent) : IsScan(sent[j])}

\* the index of the recorded scan that i later recorded scans follow
ScanFromEnd(i) ==
    CHOOSE j \in ScanIndices : Cardinality({x \in ScanIndices : x > j}) = i

\* the ScanRecord the j-th message leaves in the history
ScanRecordOf(j) ==
    add_rfid_data(InitData, sent[j].value, TimeOf(sent, j)).data.rfid_checkpoints.uid_scans[1]

\* C20 (bounded scan history): the rfid timestamps deque and the uid_scans
\* deque have the same length, at most max_points; after k recorded scans they
\* hold the last min(k, max_points) of them in arrival order; and the
\* checkpoint_progress entry of every recorded scan, evicted or not, is present.
C20_BoundedScans ==
    LET R == data.rfid_checkpoints
        k == Cardinality(ScanIndices)
        n == Min(k, max_points)
    IN  /\ Len(R.timestamps) = Len(R.uid_scans)
        /\ Len(R.uid_scans) <= max_points
        /\ Len(R.uid_scans) = n
        /\ \A i \in 1..n :
              /\ R.uid_scans[i] = ScanRecordOf(ScanFromEnd(n - i))
              /\ R.timestamps[i] = TimeOf(sent, ScanFromEnd(n - i))
        /\ \A j \in ScanIndices :
              ScanRecordOf(j).node_id # <<>>
              => /\ ScanRecordOf(j).node_id \in DOMAIN R.checkpoint_progress
                 /\ ScanRecordOf(j).checkpoint
                       \in DOMAIN R.checkpoint_progress[ScanRecordOf(j).node_id]

\* more scans than max_points were recorded: the scan at "Z9" was evicted
\* from the history and its progress entry is still there
C20_Witness ==
    /\ Cardinality(ScanIndices) > max_points
    /\ sent[1] = Msg(rfid_topic, RfidPayloads[4])
    /\ Len(data.rfid_checkpoints.uid_scans) = max_points
    /\ \A i \in 1..max_points : data.rfid_checkpoints.uid_scans[i].node_id # <<"Z","9">>
    /\ <<"Z","9">> \in DOMAIN data.rfid_checkpoints.checkpoint_progress

\* the telemetry state: everything in the store but rfid_checkpoints
Telemetry(d) == <<d.gas_sensors, d.health_sensors, d.environmental_sensors, d.gps_data>>

\* C21 (topic routing): a message on the combined-sensor topic never changes
\* the rfid state, a message on the checkpoint topic never changes the
\* gas / health / environmental / gps state, and a message on any other topic
\* changes nothing in the store, whatever its payload.
C21_TopicRouting ==
    [][Len(sent') = Len(sent) + 1 =>
        LET m == sent'[Len(sent')] IN
        /\ m.topic = gas_topic => data'.rfid_checkpoints = data.rfid_checkpoints
        /\ m.topic = rfid_topic => Telemetry(data') = Telemetry(data)
        /\ m.topic \notin {gas_topic, rfid_topic} => data' = data]_vars

\* a batch, a scan and a message of another topic were delivered: the batch
\* and the scan are in the store, each in its own part
C21_Witness ==
    /\ Len(sent) = 3
    /\ {sent[i].topic : i \in 1..3} = {gas_topic, rfid_topic, other_topic}
    /\ Len(data.health_sensors.heartRate) = 1
    /\ Len(data.rfid_checkpoints.uid_scans) = 1
    /\ Len(log) = 2

\* C22 (connected flag): connected is false at start, and after any sequence
\* of callbacks it is true exactly when some on_connect with return code 0 has
\* occurred and no on_disconnect after it; an on_connect with another return
\* code, on_message and the store operations it runs leave it as it is.
C22_ConnectedFlag ==
    /\ connected <=>
          \E i \in 1..Len(session) :
              /\ session[i] = [cb |-> "on_connect", rc |-> 0]
              /\ \A j \in (i + 1)..Len(session) : session[j].cb # "on_disconnect"
    /\ session = <<>> => ~connected

\* a refused connection attempt after a session that ended, with a message
\* handled meanwhile: the flag stays false
C22_Witness ==
    /\ Len(session) = 3
    /\ session[1] = [cb |-> "on_connect", rc |-> 0]
    /\ session[2].cb = "on_disconnect"
    /\ session[3] = [cb |-> "on_connect", rc |-> 5]
    /\ Len(sent) = 2
    /\ Len(data.health_sensors.heartRate) = 1
    /\ ~connected

\* C23 (ingestion is not gated by the connected flag): the store is the one
\* that results from handling the delivered messages alone, whatever the
\* session callbacks made before and between them, so a message leaves the
\* same store whether connected was true or false when it came.
C23_NotGated ==
    LET handled == Replay(sent, InitData, 0)
    IN  /\ data = handled.data
        /\ clock = handled.clock

\* a batch was stored after the session had ended
C23_Witness ==
    /\ ~connected
    /\ Len(log) >= 2
    /\ log[Len(log)] = InfoRecord("Received gas data")
    /\ log[Len(log) - 1] = InfoRecord("Disconnected from MQTT broker")
    /\ Len(data.health_sensors.heartRate) = 1

\* message m makes on_message write a log record: it fails to decode, or its
\* topic is one of the two subscribed
IsLogged(m) == DecodeExc(m) # "" \/ m.topic \in {gas_topic, rfid_topic}

\* C24 (no fatal path in ingestion): whatever the topic and the payload
\* (invalid UTF-8, invalid JSON, JSON that is no object, objects with missing
\* or wrong-typed fields), on_message returns normally: no exception reaches
\* the transport's loop, the lock is free, and the message has left its one
\* log record (none for a decodable message of another topic).
C24_NoFatalPath ==
    /\ mqtt.pc = "idle"
    /\ lock = "free"
    /\ Len(log) = Cardinality({i \in 1..Len(sent) : IsLogged(sent[i])})
    /\ Len(sent) < MaxMsgs => ENABLED DeliverOther

\* invalid UTF-8, a JSON list on the combined-sensor topic and a numeric
\* station_id were handled, each logged as an error
C24_Witness ==
    /\ Len(sent) = 3
    /\ {log[i].text : i \in 1..Len(log)} = {"UnicodeDecodeError", "AttributeError", "TypeError"}
    /\ \A i \in 1..Len(log) : log[i].level = "error"
    /\ mqtt.pc = "idle"
    /\ Len(data.health_sensors.timestamps) = 1

\* C25 (static topology is immutable): in every state, inside and between the
\* store operations and the getters, active_checkpoints is the table
\* __init__ built: the same nine nodes with the same checkpoints in the same
\* order, also after scans at unmapped stations.
C25_TopologyImmutable ==
    /\ data.rfid_checkpoints.active_checkpoints = InitData.rfid_checkpoints.active_checkpoints
    /\ Cardinality(DOMAIN data.rfid_checkpoints.active_checkpoints) = 9
    /\ \A r \in Readers :
          (rd[r].pc = "returned" /\ rd[r].getter = "get_rfid_data")
          => View(data, "get_rfid_data", rd[r].ret).active_checkpoints
                = InitData.rfid_checkpoints.active_checkpoints

\* the scan at the unmapped station "Z9" has been recorded, its progress entry
\* set, and a reader holds what get_checkpoint_status returned after it
C25_Witness ==
    /\ <<"Z","9">> \in DOMAIN data.rfid_checkpoints.checkpoint_progress
    /\ data.rfid_checkpoints.latest_station = Str(<<"Z","9">>)
    /\ mqtt.pc = "idle"
    /\ rd["checkpoints"].pc = "returned"
    /\ rd["checkpoints"].getter = "get_checkpoint_status"
    /\ Len(rd["checkpoints"].ret.status) = 4
    /\ Len(data.gas_sensors.timestamps) = 1

ScanOfLetter ==
    /\ ScanOfString
    /\ "station_id" \in DOMAIN sent[1].value.d
    /\ Len(ScanStation) = 1
    /\ ScanStation[1] \in {"A", "B", "C"}

\* the completed call is a scan whose station id is empty or missing
ScanOfEmpty ==
    /\ ScanOfString
    /\ Get(sent[1].value.d, "station_id", Str(<<>>)).s = <<>>

\* C27 (station edge cases): a scan at a one-letter station id of zone A, B or
\* C is recorded as station number 1, with the zone's first node and the
\* checkpoint "Station " + station id; a scan with an empty or missing station
\* id is recorded with node "" and checkpoint "Station ".
C27_StationEdges ==
    /\ ScanOfLetter =>
          /\ log = <<InfoRecord("Received RFID data")>>
          /\ Len(data.rfid_checkpoints.uid_scans) = 1
          /\ Scan.node_id = zone_nodes[ScanStation[1]][1]
          /\ Scan.checkpoint = <<"S","t","a","t","i","o","n"," ">> \o ScanStation
          /\ ScanStation = <<"A">> => Scan.node_id = <<"1","2","9","8">>
          /\ ScanStation = <<"B">> => Scan.node_id = <<"2","0","0","1">>
          /\ ScanStation = <<"C">> => Scan.node_id = <<"3","0","1","2">>
    /\ ScanOfEmpty =>
          /\ log = <<InfoRecord("Received RFID data")>>
          /\ Len(data.rfid_checkpoints.uid_scans) = 1
          /\ Scan.station_id = Str(<<>>)
          /\ Scan.node_id = <<>>
          /\ Scan.checkpoint = <<"S","t","a","t","i","o","n"," ">>

\* station "C" was scanned and recorded at node 3012 as "Station C"
C27_Witness ==
    /\ ScanOfLetter
    /\ ScanStation = <<"C">>
    /\ Scan.node_id = <<"3","0","1","2">>
    /\ Scan.checkpoint = <<"S","t","a","t","i","o","n"," ","C">>
    /\ data.rfid_checkpoints.latest_station = Str(<<"C">>)

\* the completed or failed call is a scan at a station of zone A, B or C whose
\* remainder is an integer numeral, signed or not
ScanOfInteger ==
    /\ ScanOfString
    /\ "station_id" \in DOMAIN sent[1].value.d
    /\ Len(ScanStation) > 1
    /\ ScanStation[1] \in {"A", "B", "C"}
    /\ IntParses(Tail(ScanStation))

\* C30 (node index stays in range): for a station of zone A, B or C with an
\* integer station number n, zero and negative numerals included, the index
\* (n - 1) mod 3 is 0, 1 or 2, the call does not raise, and the scan is
\* recorded with one of the zone's three nodes ("A0" with 1456, "A-5" with
\* 1298).
C30_IndexInRange ==
    ScanOfInteger =>
        LET n == IntOf(Tail(ScanStation))
            nodes == zone_nodes[ScanStation[1]]
        IN  /\ ((n - 1) % 3) \in 0..2
            /\ log = <<InfoRecord("Received RFID data")>>
            /\ Len(data.rfid_checkpoints.uid_scans) = 1
            /\ Scan.node_id \in {nodes[i] : i \in 1..3}
            /\ Scan.node_id = nodes[((n - 1) % 3) + 1]
            /\ ScanStation = <<"A","0">> => Scan.node_id = <<"1","4","5","6">>
            /\ ScanStation = <<"A","-","5">> => Scan.node_id = <<"1","2","9","8">>
            /\ ScanStation = <<"A","-","1">> => Scan.node_id = <<"1","7","5","3">>
            /\ ScanStation = <<"C","-","1","0">> => Scan.node_id = <<"3","0","6","7">>

\* station "A-5" was scanned and recorded at node 1298
C30_Witness ==
    /\ ScanOfInteger
    /\ ScanStation = <<"A","-","5">>
    /\ Scan.node_id = <<"1","2","9","8">>
    /\ <<"1","2","9","8">> \in DOMAIN data.rfid_checkpoints.checkpoint_progress

\* the step is a completed scan whose station id is empty or missing
EmptyScanStep ==
    /\ ScanStep
    /\ Get(sent'[Len(sent')].value.d, "station_id", Str(<<>>)) = Str(<<>>)

\* C28 (a scan without a station leaves progress alone): a scan with an empty
\* or missing station_id is appended to the scan history and sets latest_tag
\* and latest_station, and checkpoint_progress is the same after it as before;
\* checkpoint_progress never has the key "".
C28_EmptyStationNoProgress ==
    [][/\ <<>> \notin DOMAIN data'.rfid_checkpoints.checkpoint_progress
       /\ EmptyScanStep =>
            LET R == data.rfid_checkpoints
                R2 == data'.rfid_checkpoints
                p == sent'[Len(sent')].value.d
                rec == R2.uid_scans[Len(R2.uid_scans)]
            IN  /\ R2.checkpoint_progress = R.checkpoint_progress
                /\ R2.uid_scans = DequeAppend(R.uid_scans, rec)
                /\ rec = [tag_id |-> Get(p, "tag_id", Str(<<>>)), station_id |-> Str(<<>>),
                          node_id |-> <<>>,
                          checkpoint |-> <<"S","t","a","t","i","o","n"," ">>,
                          timestamp |-> Time(clock)]
                /\ R2.latest_tag = Get(p, "tag_id", Str(<<>>))
                /\ R2.latest_station = Str(<<>>)]_vars

\* a scan without station_id came after a scan at A1: it is the latest scan of
\* the history, and checkpoint_progress still holds the entry of node 1298 alone
C28_Witness ==
    /\ Len(data.rfid_checkpoints.uid_scans) = 2
    /\ data.rfid_checkpoints.uid_scans[1].station_id = Str(<<"A","1">>)
    /\ data.rfid_checkpoints.uid_scans[2].station_id = Str(<<>>)
    /\ data.rfid_checkpoints.uid_scans[2].node_id = <<>>
    /\ data.rfid_checkpoints.latest_station = Str(<<>>)
    /\ DOMAIN data.rfid_checkpoints.checkpoint_progress = {<<"1","2","9","8">>}

\* the (node, checkpoint) pairs a scan can mark: stations 1 and 4 of each zone
\* resolve to the zone's first node, whose list holds their names
Passable ==
    { << <<"1","2","9","8">>, checkpoint_mapping[<<"A","1">>] >>,
      << <<"1","2","9","8">>, checkpoint_mapping[<<"A","4">>] >>,
      << <<"2","0","0","1">>, checkpoint_mapping[<<"B","1">>] >>,
      << <<"2","0","0","1">>, checkpoint_mapping[<<"B","4">>] >>,
      << <<"3","0","1","2">>, checkpoint_mapping[<<"C","1">>] >>,
      << <<"3","0","1","2">>, checkpoint_mapping[<<"C","4">>] >> }

\* C29 (reachable pass states): after any sequence of scans,
\* get_checkpoint_status reports as passed only checkpoints among "Entry Gate"
\* and "Deep Section" of node 1298, "North Entry" and "Exit Portal" of node
\* 2001, "South Gate" and "Return Path" of node 3012; every other configured
\* checkpoint is reported pending.
C29_ReachablePasses ==
    \A node \in DOMAIN active_checkpoints :
        LET status == get_checkpoint_status(data, node)
        IN  /\ Len(status) = Len(active_checkpoints[node])
            /\ \A i \in 1..Len(status) :
                  /\ status[i][1] = active_checkpoints[node][i]
                  /\ status[i][2] => <<node, status[i][1]>> \in Passable
                  /\ <<node, status[i][1]>> \notin Passable
                        => status[i] = <<status[i][1], FALSE, None>>

\* stations A1, A4 and B4 were scanned: three of the six are reported passed,
\* two of them at node 1298
C29_Witness ==
    /\ Len(sent) = 3
    /\ get_checkpoint_status(data, <<"1","2","9","8">>)[1][2]
    /\ get_checkpoint_status(data, <<"1","2","9","8">>)[4][2]
    /\ ~get_checkpoint_status(data, <<"1","2","9","8">>)[2][2]
    /\ get_checkpoint_status(data, <<"2","0","0","1">>)[4][2]

\* the step handles message m of the checkpoint topic, and the store
\* operation raises or resolves the station to a node other than n
ScanElsewhere(m, n) ==
    /\ m.topic = rfid_topic
    /\ DecodeExc(m) = ""
    /\ LET v == RfidLocals(m.value) IN v.exc # "" \/ v.node_id # n

\* C31 (per-node independence): get_checkpoint_status(n) gives the same list
\* after a call of add_gas_data as before it, and the same list after a call
\* of add_rfid_data whose station resolves to a node other than n.
C31_NodeIndependence ==
    [][Len(sent') = Len(sent) + 1 =>
        LET m == sent'[Len(sent')] IN
        \A n \in AskedNodes \cup DOMAIN data'.rfid_checkpoints.checkpoint_progress :
            (IsGasCall(m) \/ ScanElsewhere(m, n))
                => get_checkpoint_status(data', n) = get_checkpoint_status(data, n)]_vars

\* station A1 was scanned, then station A5 of node 1753 and a batch came:
\* node 1298 still reports "Entry Gate" passed at the time of the first scan
C31_Witness ==
    /\ Len(sent) = 3
    /\ sent[1].topic = rfid_topic
    /\ {<<"1","2","9","8">>, <<"1","7","5","3">>}
          = DOMAIN data.rfid_checkpoints.checkpoint_progress
    /\ Len(data.health_sensors.heartRate) = 1
    /\ get_checkpoint_status(data, <<"1","2","9","8">>)[1]
          = <<checkpoint_mapping[<<"A","1">>], TRUE, Time(0)>>

\* what a summary pass reads when gas_data holds the i-th received message
SummaryOf(i) ==
    [key \in {"LPG", "CH4", "Propane", "Butane", "H2", "timestamp"} |->
        IF key = "timestamp" THEN server.received[i].ts
        ELSE Get(server.received[i].m.value.d, key, None)]

\* C32 (a summary pass reads one message): the timestamp and the five
\* readings a completed pass of print_gas_summary has read are those of one
\* received message, however the pass interleaves with parse_gas_sensor_data.
C32_SummaryFromOneMessage ==
    server.summary.pc = "done" =>
        \E i \in 1..Len(server.received) :
            /\ ServerStores(server.received[i].m)
            /\ server.summary.seen = SummaryOf(i)

====
